---------------------------- MODULE Spec2Model ----------------------------
(***************************************************************************)
(* Home departure board (src/app.py): the static schedule cache            *)
(* (load_gtfs_trip_headsigns), the direction resolver                      *)
(* (translate_direction, CUSTOM_TERMINUS_MAP), the departure filter and   *)
(* ranker (fetch_stm_departures), the JSON sources (fetch_bixi_status,     *)
(* fetch_weather, fetch_aqi, calculate_sunrise_sunset) and the dashboard   *)
(* aggregation (get_dashboard).                                            *)
(*                                                                         *)
(* Python values are modelled as follows.  A str that the code inspects    *)
(* character by character (headsigns, direction texts) is a sequence of    *)
(* one-character strings; identifiers that are only compared (route ids,   *)
(* trip ids, stop ids) are TLA+ strings.  An optional value is a sequence  *)
(* of length 0 (None / field absent) or 1 (the value).  Times are whole    *)
(* seconds.                                                                *)
(***************************************************************************)
EXTENDS Integers, Sequences, FiniteSets, TLC

None == <<>>
Some(x) == <<x>>
IsSome(o) == Len(o) = 1
Get(o) == o[1]

(***************************************************************************)
(* Python str operations used by translate_direction and the resolver.     *)
(***************************************************************************)
Whitespace == {" "}

LowerPairs ==
    << <<"A","a">>, <<"B","b">>, <<"C","c">>, <<"D","d">>, <<"E","e">>,
       <<"F","f">>, <<"G","g">>, <<"H","h">>, <<"I","i">>, <<"J","j">>,
       <<"K","k">>, <<"L","l">>, <<"M","m">>, <<"N","n">>, <<"O","o">>,
       <<"P","p">>, <<"Q","q">>, <<"R","r">>, <<"S","s">>, <<"T","t">>,
       <<"U","u">>, <<"V","v">>, <<"W","w">>, <<"X","x">>, <<"Y","y">>,
       <<"Z","z">> >>

LowerChar(c) ==
    IF \E i \in 1..Len(LowerPairs) : LowerPairs[i][1] = c
    THEN LowerPairs[CHOOSE i \in 1..Len(LowerPairs) : LowerPairs[i][1] = c][2]
    ELSE c

\* s.lower()
Lower(s) == [i \in 1..Len(s) |-> LowerChar(s[i])]

MatchAt(s, sub, i) ==
    /\ i + Len(sub) - 1 <= Len(s)
    /\ SubSeq(s, i, i + Len(sub) - 1) = sub

\* s.find(sub) + 1: the 1-based index of the first occurrence, 0 when absent
Find(s, sub) ==
    LET hits == {i \in 1..Len(s) : MatchAt(s, sub, i)}
    IN  IF hits = {} THEN 0 ELSE CHOOSE i \in hits : \A j \in hits : i <= j

\* sub in s
Contains(s, sub) == Find(s, sub) # 0

\* s.startswith(p)
StartsWith(s, p) == MatchAt(s, p, 1)

\* s.split(sep, 1): a list of one or two parts
SplitOnce(s, sep) ==
    LET i == Find(s, sep)
    IN  IF i = 0 THEN <<s>>
        ELSE <<SubSeq(s, 1, i - 1), SubSeq(s, i + Len(sep), Len(s))>>

\* s.strip()
Strip(s) ==
    LET keep == {i \in 1..Len(s) : s[i] \notin Whitespace}
    IN  IF keep = {} THEN <<>>
        ELSE LET lo == CHOOSE i \in keep : \A j \in keep : i <= j
                 hi == CHOOSE i \in keep : \A j \in keep : j <= i
             IN  SubSeq(s, lo, hi)

\* s.split(): the words of s; only the first one is used by the code
FirstWord(s) ==
    LET keep == {i \in 1..Len(s) : s[i] \notin Whitespace}
        lo   == CHOOSE i \in keep : \A j \in keep : i <= j
        gaps == {i \in lo..Len(s) : s[i] \in Whitespace}
        hi   == IF gaps = {} THEN Len(s)
                ELSE (CHOOSE i \in gaps : \A j \in gaps : i <= j) - 1
    IN  SubSeq(s, lo, hi)

HasWord(s) == \E i \in 1..Len(s) : s[i] \notin Whitespace

\* s.replace(old, new, 1)
ReplaceFirst(s, old, new) ==
    LET i == Find(s, old)
    IN  IF i = 0 THEN s
        ELSE SubSeq(s, 1, i - 1) \o new \o SubSeq(s, i + Len(old), Len(s))

(***************************************************************************)
(* translate_direction                                                     *)
(***************************************************************************)
\* translation_map, in insertion order (the order the prefix loop visits)
translation_map ==
    << << <<"N","o","r","d">>, <<"N","o","r","t","h">> >>,
       << <<"S","u","d">>, <<"S","o","u","t","h">> >>,
       << <<"E","s","t">>, <<"E","a","s","t">> >>,
       << <<"O","u","e","s","t">>, <<"W","e","s","t">> >>,
       << <<"N","o","r","d"," ","v","i","a">>, <<"N","o","r","t","h"," ","v","i","a">> >>,
       << <<"S","u","d"," ","v","i","a">>, <<"S","o","u","t","h"," ","v","i","a">> >>,
       << <<"E","s","t"," ","v","i","a">>, <<"E","a","s","t"," ","v","i","a">> >>,
       << <<"O","u","e","s","t"," ","v","i","a">>, <<"W","e","s","t"," ","v","i","a">> >> >>

Returned(v) == [raised |-> FALSE, value |-> v]
\* an exception leaves the function (IndexError at line 225)
Raised == [raised |-> TRUE, value |-> <<>>]

\* lines 228-250: exact match first, then the first prefix in table order
TranslateCardinal(headsign) ==
    LET exact  == {i \in 1..Len(translation_map) : translation_map[i][1] = headsign}
        prefix == {i \in 1..Len(translation_map) :
                       StartsWith(headsign, translation_map[i][1])}
    IN  IF exact # {}
        THEN translation_map[CHOOSE i \in exact : TRUE][2]
        ELSE IF prefix # {}
        THEN LET k == CHOOSE i \in prefix : \A j \in prefix : i <= j
             IN  ReplaceFirst(headsign, translation_map[k][1], translation_map[k][2])
        ELSE headsign

translate_direction(headsign) ==
    LET destination == <<"d","e","s","t","i","n","a","t","i","o","n">>
        Station     == <<"S","t","a","t","i","o","n">>
        StationSp   == <<"S","t","a","t","i","o","n"," ">>
        parts       == SplitOnce(headsign, destination)
        rest        == SplitOnce(headsign, StationSp)[2]
    IN  IF headsign = <<>> THEN Returned(headsign)
        ELSE IF Contains(Lower(headsign), destination) /\ Len(parts) > 1
        THEN Returned(Strip(parts[2]))
        ELSE IF Contains(headsign, Station) /\ Contains(headsign, StationSp)
        THEN IF HasWord(rest)
             THEN Returned(StationSp \o FirstWord(rest))
             ELSE Raised
        ELSE Returned(TranslateCardinal(headsign))

(***************************************************************************)
(* Direction resolver (fetch_stm_departures, lines 327-388)                *)
(***************************************************************************)
\* CUSTOM_TERMINUS_MAP as <<route, cardinal, terminus>> entries
CUSTOM_TERMINUS_MAP ==
    { <<"107", <<"W","e","s","t">>, <<"V","e","r","d","u","n">> >>,
      <<"107", <<"E","a","s","t">>,
        <<"S","q","u","a","r","e"," ","V","i","c","t","o","r","i","a">> >>,
      <<"71", <<"N","o","r","t","h">>,
        <<"G","u","y"," ","C","o","n","c","o","r","d","i","a">> >>,
      <<"71", <<"S","o","u","t","h">>,
        <<"D","e"," ","L","'","E","g","l","i","s","e">> >>,
      <<"57", <<"N","o","r","t","h">>,
        <<"C","h","a","r","l","e","v","o","i","x",","," ","G","e","o","r","g","e","s",
          "-","V","a","n","i","e","r",","," ","A","t","w","a","t","e","r">> >> }

\* route_id in CUSTOM_TERMINUS_MAP
RouteInMap(route_id) == \E e \in CUSTOM_TERMINUS_MAP : e[1] = route_id

\* cardinal_direction in CUSTOM_TERMINUS_MAP[route_id]
CardinalInMap(route_id, cardinal) ==
    \E e \in CUSTOM_TERMINUS_MAP : e[1] = route_id /\ e[2] = cardinal

\* CUSTOM_TERMINUS_MAP[route_id][cardinal_direction]
Override(route_id, cardinal) ==
    (CHOOSE e \in CUSTOM_TERMINUS_MAP : e[1] = route_id /\ e[2] = cardinal)[3]

\* ['North', 'South', 'East', 'West'], in the order of the elif chain
Cardinals ==
    << <<"N","o","r","t","h">>, <<"S","o","u","t","h">>,
       <<"E","a","s","t">>, <<"W","e","s","t">> >>

\* lines 343-353: the bare cardinal of a translated headsign, or None
\* (variant: the prefix is tested without the space after the word)
ExtractCardinalAnyPrefix(translated) ==
    LET hits == {i \in 1..Len(Cardinals) : StartsWith(translated, Cardinals[i])}
    IN  IF hits = {} THEN None ELSE Some(Cardinals[CHOOSE i \in hits : TRUE])

ExtractCardinal(translated) ==
    LET hits == {i \in 1..Len(Cardinals) :
                    \/ translated = Cardinals[i]
                    \/ StartsWith(translated, Cardinals[i] \o <<" ">>)}
    IN  IF hits = {} THEN None ELSE Some(Cardinals[CHOOSE i \in hits : TRUE])

\* lines 355-372: override table, then cardinal, then the direction flag
\* (variants: the override table is never consulted; the flag's fallback
\* shows a placeholder)
ResolveDirectionNoOverride(route_id, cardinal, direction_id) ==
    IF IsSome(cardinal) THEN Some(Get(cardinal))
    ELSE IF direction_id = Some(0) THEN Some(<<"O","u","t","b","o","u","n","d">>)
    ELSE IF direction_id = Some(1) THEN Some(<<"I","n","b","o","u","n","d">>)
    ELSE None

ResolveDirectionUnknown(route_id, cardinal, direction_id) ==
    IF RouteInMap(route_id) /\ IsSome(cardinal)
    THEN IF CardinalInMap(route_id, Get(cardinal))
         THEN Some(Override(route_id, Get(cardinal)))
         ELSE Some(Get(cardinal))
    ELSE IF IsSome(cardinal) THEN Some(Get(cardinal))
    ELSE IF direction_id = Some(0) THEN Some(<<"O","u","t","b","o","u","n","d">>)
    ELSE IF direction_id = Some(1) THEN Some(<<"I","n","b","o","u","n","d">>)
    ELSE Some(<<"U","n","k","n","o","w","n">>)

ResolveDirection(route_id, cardinal, direction_id) ==
    IF RouteInMap(route_id) /\ IsSome(cardinal)
    THEN IF CardinalInMap(route_id, Get(cardinal))
         THEN Some(Override(route_id, Get(cardinal)))
         ELSE Some(Get(cardinal))
    ELSE IF IsSome(cardinal) THEN Some(Get(cardinal))
    ELSE IF direction_id = Some(0) THEN Some(<<"O","u","t","b","o","u","n","d">>)
    ELSE IF direction_id = Some(1) THEN Some(<<"I","n","b","o","u","n","d">>)
    ELSE None

\* lines 374-384: the route 57 southbound filter
\* (variant: the route is compared with the number 57, which no str equals)
IsRoute57SouthNever(route_id, cardinal, direction) == FALSE

\* (variant: the test of the route is left out)
IsSouthOnAnyRoute(route_id, cardinal, direction) ==
    \/ cardinal = Some(<<"S","o","u","t","h">>)
    \/ /\ IsSome(direction)
       /\ \/ Contains(Lower(Get(direction)), <<"s","o","u","t","h">>)
          \/ Contains(Get(direction), <<"C","o","s","t","c","o">>)

IsRoute57South(route_id, cardinal, direction) ==
    /\ route_id = "57"
    /\ \/ cardinal = Some(<<"S","o","u","t","h">>)
       \/ /\ IsSome(direction)
          /\ \/ Contains(Get(direction), <<"S","o","u","t","h">>)
             \/ Contains(Lower(Get(direction)), <<"s","o","u","t","h">>)
       \/ /\ IsSome(direction)
          /\ Contains(Get(direction), <<"C","o","s","t","c","o">>)

(***************************************************************************)
(* Time                                                                    *)
(***************************************************************************)
SecondsPerMinute == 60
SecondsPerHour == 3600
DaySeconds == 86400

\* datetime.isoformat(): the date and the time of day, written apart
IsoFormat(t) == [date |-> t \div DaySeconds, time |-> t % DaySeconds]

\* datetime.fromisoformat()
FromIsoFormat(iso) == iso.date * DaySeconds + iso.time

\* strftime('%H:%M')
HourMinute(t) ==
    <<(t % DaySeconds) \div SecondsPerHour, (t % SecondsPerHour) \div SecondsPerMinute>>

\* timedelta.days: whole days, rounded towards minus infinity
TimedeltaDays(delta) == delta \div DaySeconds

\* int(x / 60): Python's int() drops the fraction, towards zero
MinutesUntil(delta) ==
    IF delta >= 0 THEN delta \div SecondsPerMinute
    ELSE -((-delta) \div SecondsPerMinute)

(***************************************************************************)
(* fetch_stm_departures                                                    *)
(***************************************************************************)
WindowMinutes == 60
MaxDepartures == 20

\* line 326
\* (variant: the lower end of the window is not tested)
InWindowNoLower(minutes_until) == minutes_until <= WindowMinutes

InWindow(minutes_until) == 0 <= minutes_until /\ minutes_until <= WindowMinutes

\* GTFS_TRIP_HEADSIGNS.get(trip_id, None); the dict is a function on its keys
DictGet(dict, key) == IF key \in DOMAIN dict THEN Some(dict[key]) ELSE None

\* lines 310-315: arrival.time when the arrival field is set, else departure.time,
\* else None; a set field whose time was never filled in reads 0
EventTime(stu) ==
    IF IsSome(stu.arrival) THEN stu.arrival
    ELSE IF IsSome(stu.departure) THEN stu.departure
    ELSE None

\* lines 327-334: the trip descriptor's fields with their defaults
RouteId(trip) == IF IsSome(trip.route_id) THEN Get(trip.route_id) ELSE "N/A"
TripId(trip) == IF IsSome(trip.trip_id) THEN Get(trip.trip_id) ELSE <<>>

\* lines 336-342: the translated headsign of a trip (raised, value), None
\* when the trip has no (non-empty) headsign
Translated(trip, headsigns) ==
    LET headsign == DictGet(headsigns, TripId(trip))
    IN  IF IsSome(headsign) /\ Get(headsign) # <<>>
        THEN Some(translate_direction(Get(headsign)))
        ELSE None

\* lines 339-353
CardinalOf(trip, headsigns) ==
    LET t == Translated(trip, headsigns)
    IN  IF IsSome(t) /\ ~Get(t).raised THEN ExtractCardinal(Get(t).value) ELSE None

\* One pass of the inner loop body (lines 306-398) for one stop-time update:
\* "skip" (nothing appended), "raise" (an exception leaves the loop) or
\* "emit" with the appended record.
ProcessUpdate(trip, stu, stop_ids_set, now, headsigns) ==
    LET arrival_time  == EventTime(stu)
        minutes_until == MinutesUntil(Get(arrival_time) - now)
        route_id      == RouteId(trip)
        translated    == Translated(trip, headsigns)
        cardinal      == CardinalOf(trip, headsigns)
        direction     == ResolveDirection(route_id, cardinal, trip.direction_id)
    IN  IF stu.stop_id \notin stop_ids_set THEN [kind |-> "skip"]
        ELSE IF ~IsSome(arrival_time) \/ Get(arrival_time) = 0 THEN [kind |-> "skip"]
        ELSE IF ~InWindow(minutes_until) THEN [kind |-> "skip"]
        ELSE IF IsSome(translated) /\ Get(translated).raised THEN [kind |-> "raise"]
        ELSE IF IsRoute57South(route_id, cardinal, direction) THEN [kind |-> "skip"]
        ELSE [kind |-> "emit",
              record |-> [route_number    |-> route_id,
                          direction       |-> direction,
                          direction_id    |-> trip.direction_id,
                          arrival_minutes |-> minutes_until,
                          arrival_time    |-> HourMinute(Get(arrival_time)),
                          scheduled_time  |-> IsoFormat(Get(arrival_time)),
                          trip_id         |-> TripId(trip)]]

\* lines 300-305: the (trip, stop_time_update) pairs in feed order
RECURSIVE Updates(_)
Updates(entities) ==
    IF entities = <<>> THEN <<>>
    ELSE LET e == Head(entities)
         IN  (IF e.has_trip_update
              THEN [i \in 1..Len(e.stop_time_update) |->
                       [trip |-> e.trip, stu |-> e.stop_time_update[i]]]
              ELSE <<>>)
             \o Updates(Tail(entities))

\* list.sort(key=...): stable, ascending
RECURSIVE SortByMinutes(_)
\* (variant: the list is left in feed order)
SortByMinutesSkipped(records) == records

SortByMinutes(records) ==
    IF records = <<>> THEN <<>>
    ELSE LET sorted == SortByMinutes(SubSeq(records, 1, Len(records) - 1))
             r      == records[Len(records)]
             before == {i \in 1..Len(sorted) :
                           sorted[i].arrival_minutes <= r.arrival_minutes}
             k      == IF before = {} THEN 0
                       ELSE CHOOSE i \in before : \A j \in before : j <= i
         IN  SubSeq(sorted, 1, k) \o <<r>> \o SubSeq(sorted, k + 1, Len(sorted))

\* departures[:20]
\* (variant: the list is not cut)
TruncateSkipped(records) == records

Truncate(records) ==
    SubSeq(records, 1, IF Len(records) < MaxDepartures THEN Len(records) ELSE MaxDepartures)

\* lines 294-407: the loop over the parsed feed, the sort and the cap; an
\* exception anywhere in the loop is caught at line 417 and gives []
SelectDepartures(entities, stop_ids_set, now, headsigns) ==
    LET updates  == Updates(entities)
        outcomes == [i \in 1..Len(updates) |->
                        ProcessUpdate(updates[i].trip, updates[i].stu,
                                      stop_ids_set, now, headsigns)]
        emitted  == SelectSeq(outcomes, LAMBDA o : o.kind = "emit")
        appended == [i \in 1..Len(emitted) |-> emitted[i].record]
    IN  IF \E i \in 1..Len(outcomes) : outcomes[i].kind = "raise"
        THEN <<>>
        ELSE Truncate(SortByMinutes(appended))

\* line 267: CONFIG.get('transit', {}).get('api_key', ''); a configuration
\* without the key gives the default
ApiKey(config) == IF "api_key" \in DOMAIN config THEN config.api_key ELSE ""

\* A fetch function is a try block and its except clauses.  The outcome of
\* the try block is a record: raised tells whether an exception left it,
\* value is what it returned otherwise, requests counts the GETs it sent.
\* The except clauses (lines 409-419, 473-475, 530-532, 585-587, 628-631)
\* catch Exception and give the function's neutral value.
\* (variant: the exception goes on to the caller)
AbsorbNothing(outcome, neutral) == outcome

Absorb(outcome, neutral) ==
    IF outcome.raised THEN [outcome EXCEPT !.raised = FALSE, !.value = neutral]
    ELSE outcome

\* lines 266-407, the try block.  response is the upstream's answer to the
\* one GET: status "ok" with the feed's entities, an HTTP error status
\* (raise_for_status raises), a transport failure (requests.get raises), or
\* "ok" with a body protobuf cannot parse (ParseFromString raises).
\* (variant: a failed GET is sent a second time)
FetchStmTryRetrying(stop_ids, config, gtfs_available, response, now, headsigns) ==
    IF ApiKey(config) = "" THEN [raised |-> FALSE, value |-> <<>>, requests |-> 0]
    ELSE IF ~gtfs_available THEN [raised |-> FALSE, value |-> <<>>, requests |-> 0]
    ELSE IF response.status # "ok" \/ ~response.parses
    THEN [raised |-> TRUE, value |-> <<>>, requests |-> 2]
    ELSE [raised   |-> FALSE,
          value    |-> SelectDepartures(response.entities, stop_ids, now, headsigns),
          requests |-> 1]

\* (variant: the test of the key is left out)
FetchStmTryWithoutKeyTest(stop_ids, config, gtfs_available, response, now, headsigns) ==
    IF ~gtfs_available THEN [raised |-> FALSE, value |-> <<>>, requests |-> 0]
    ELSE IF response.status # "ok" \/ ~response.parses
    THEN [raised |-> TRUE, value |-> <<>>, requests |-> 1]
    ELSE [raised   |-> FALSE,
          value    |-> SelectDepartures(response.entities, stop_ids, now, headsigns),
          requests |-> 1]

FetchStmTry(stop_ids, config, gtfs_available, response, now, headsigns) ==
    IF ApiKey(config) = "" THEN [raised |-> FALSE, value |-> <<>>, requests |-> 0]
    ELSE IF ~gtfs_available THEN [raised |-> FALSE, value |-> <<>>, requests |-> 0]
    ELSE IF response.status # "ok" \/ ~response.parses
    THEN [raised |-> TRUE, value |-> <<>>, requests |-> 1]
    ELSE [raised   |-> FALSE,
          value    |-> SelectDepartures(response.entities, stop_ids, now, headsigns),
          requests |-> 1]

\* The whole function: whether it raised, what it returned and how many
\* requests it sent to the real-time feed.
fetch_stm_departures(stop_ids, config, gtfs_available, response, now, headsigns) ==
    Absorb(FetchStmTry(stop_ids, config, gtfs_available, response, now, headsigns),
           <<>>)

(***************************************************************************)
(* The cache file (.gtfs_cache.yaml) as yaml.dump writes it and            *)
(* yaml.safe_load reads it.  A document is a mapping with up to three      *)
(* keys; each inner mapping is a set of <<key scalar, value scalar>>       *)
(* entries; a scalar is its text and its style.  The dumper writes a str   *)
(* plain only when a plain scalar of that text would load as a str, and    *)
(* quotes it otherwise; the loader gives a quoted scalar as a str and      *)
(* resolves a plain one.  Of the implicit types only int is modelled.      *)
(* The dicts hold str keys and str values; an entry that would load as     *)
(* another type is not part of them.                                       *)
(***************************************************************************)
Digits == {"0","1","2","3","4","5","6","7","8","9"}

\* the YAML resolver on a plain scalar: TRUE when it stays a str
ResolvesToStr(text) == ~(text # <<>> /\ \A i \in 1..Len(text) : text[i] \in Digits)

\* what the emitter may write without quotes
PlainAllowed(text) ==
    /\ ResolvesToStr(text)
    /\ text # <<>>
    /\ text[1] \notin Whitespace
    /\ text[Len(text)] \notin Whitespace

\* (variant: every str is written plain)
DumpStrPlain(text) == [style |-> "plain", text |-> text]

DumpStr(text) ==
    [style |-> IF PlainAllowed(text) THEN "plain" ELSE "quoted", text |-> text]

\* TRUE when the loader constructs a str from the scalar
LoadsAsStr(scalar) == scalar.style = "quoted" \/ ResolvesToStr(scalar.text)

DumpDict(dict) == {<<DumpStr(k), DumpStr(dict[k])>> : k \in DOMAIN dict}

LoadDict(entries) ==
    LET strs == {e \in entries : LoadsAsStr(e[1]) /\ LoadsAsStr(e[2])}
    IN  [k \in {e[1].text : e \in strs} |->
            (CHOOSE e \in strs : e[1].text = k)[2].text]

\* lines 175-179: the document of a complete save
DumpCache(now, headsigns, terminus) ==
    [mapping        |-> TRUE,
     timestamp      |-> Some(IsoFormat(now)),
     trip_headsigns |-> Some(DumpDict(headsigns)),
     trip_terminus  |-> Some(DumpDict(terminus))]

\* a file cut short by a failed write: nothing of the document, or the
\* document up to the end of trip_headsigns
EmptyDocument ==
    [mapping |-> FALSE, timestamp |-> None, trip_headsigns |-> None,
     trip_terminus |-> None]

TruncatedDocument(now, headsigns) ==
    [mapping        |-> TRUE,
     timestamp      |-> Some(IsoFormat(now)),
     trip_headsigns |-> Some(DumpDict(headsigns)),
     trip_terminus  |-> None]

EmptyDict == <<>>

\* line 105: cache_data.get('timestamp', '2000-01-01'); the clock counts
\* seconds from that default date
CacheTime(doc) ==
    IF IsSome(doc.timestamp) THEN FromIsoFormat(Get(doc.timestamp)) ELSE 0

CacheTtlDays == 7

\* line 107
\* (variants: the comparison is turned round; the bound is included)
CacheIsFreshInverted(doc, now) == TimedeltaDays(now - CacheTime(doc)) >= CacheTtlDays

CacheIsFreshInclusive(doc, now) == TimedeltaDays(now - CacheTime(doc)) <= CacheTtlDays

CacheIsFresh(doc, now) == TimedeltaDays(now - CacheTime(doc)) < CacheTtlDays

\* lines 101-113: TRUE when the function returns from the cache branch; an
\* empty file loads as None and cache_data.get raises, which is caught
CacheHit(file, now) ==
    /\ IsSome(file)
    /\ Get(file).mapping
    /\ CacheIsFresh(Get(file), now)

\* lines 108-109
CachedDict(field) == IF IsSome(field) THEN LoadDict(Get(field)) ELSE EmptyDict

(***************************************************************************)
(* The build from the archive (lines 115-186).  A table is the rows the    *)
(* csv reader yields and whether it raises after them.                     *)
(***************************************************************************)
DictSet(dict, key, value) ==
    [k \in DOMAIN dict \cup {key} |-> IF k = key THEN value ELSE dict[k]]

\* lines 128-132
RECURSIVE ParseStops(_, _)
ParseStops(stop_names, rows) ==
    IF rows = <<>> THEN stop_names
    ELSE LET row == Head(rows)
         IN  ParseStops(IF row.stop_id # <<>> /\ row.stop_name # <<>>
                        THEN DictSet(stop_names, row.stop_id, row.stop_name)
                        ELSE stop_names,
                        Tail(rows))

\* lines 138-142
RECURSIVE ParseTrips(_, _)
ParseTrips(headsigns, rows) ==
    IF rows = <<>> THEN headsigns
    ELSE LET row == Head(rows)
         IN  ParseTrips(IF row.trip_id # <<>> /\ row.trip_headsign # <<>>
                        THEN DictSet(headsigns, row.trip_id, row.trip_headsign)
                        ELSE headsigns,
                        Tail(rows))

\* stop_names.get(last_stop_id, last_stop_id)
TerminusName(stop_names, last_stop_id) ==
    IF last_stop_id \in DOMAIN stop_names THEN stop_names[last_stop_id]
    ELSE last_stop_id

\* lines 157-159 and 166-168; current_trip starts as None, which is falsy
\* (variant: a trip that has a terminus keeps it)
SaveTerminusFirstRun(terminus, stop_names, current_trip, last_stop_id) ==
    IF /\ IsSome(current_trip) /\ Get(current_trip) # <<>> /\ last_stop_id # <<>>
       /\ Get(current_trip) \notin DOMAIN terminus
    THEN DictSet(terminus, Get(current_trip), TerminusName(stop_names, last_stop_id))
    ELSE terminus

SaveTerminus(terminus, stop_names, current_trip, last_stop_id) ==
    IF IsSome(current_trip) /\ Get(current_trip) # <<>> /\ last_stop_id # <<>>
    THEN DictSet(terminus, Get(current_trip), TerminusName(stop_names, last_stop_id))
    ELSE terminus

\* lines 151-163: the scan; the result is the loop's state after the rows
RECURSIVE ScanStopTimes(_, _, _, _, _)
ScanStopTimes(terminus, stop_names, current_trip, last_stop_id, rows) ==
    IF rows = <<>>
    THEN [terminus |-> terminus, current_trip |-> current_trip,
          last_stop_id |-> last_stop_id]
    ELSE LET row == Head(rows)
         IN  IF Some(row.trip_id) # current_trip
             THEN ScanStopTimes(
                      SaveTerminus(terminus, stop_names, current_trip, last_stop_id),
                      stop_names, Some(row.trip_id), row.stop_id, Tail(rows))
             ELSE ScanStopTimes(terminus, stop_names, current_trip, row.stop_id,
                                Tail(rows))

\* lines 144-168; the save after the loop is not reached when the reader raises
ParseStopTimes(terminus, stop_names, table) ==
    LET scan == ScanStopTimes(terminus, stop_names, None, <<>>, table.rows)
    IN  IF table.bad THEN scan.terminus
        ELSE SaveTerminus(scan.terminus, stop_names, scan.current_trip,
                          scan.last_stop_id)

\* lines 172-181: the file after the save.  The write either completes or
\* fails: open() raises (the file is left as it was) or a write raises
\* after open() truncated the file (nothing, or a leading part, is on disk).
SaveCache(save, file, now, headsigns, terminus) ==
    IF save = "ok" THEN Some(DumpCache(now, headsigns, terminus))
    ELSE IF save = "open_error" THEN file
    ELSE IF save = "truncated_empty" THEN Some(EmptyDocument)
    ELSE Some(TruncatedDocument(now, headsigns))

\* lines 115-186 once the cache branch has not returned.  download is the
\* answer to the GET of the archive: its status and, when "ok", the three
\* tables (None for a file missing from the ZIP).
BuildFromArchive(file, now, headsigns, terminus, download, save) ==
    LET archive    == download.archive
        failed(h, t) == [headsigns |-> h, terminus |-> t, file |-> file,
                         outcome |-> "failed", saved |-> FALSE]
        stop_names == IF IsSome(archive.stops)
                      THEN ParseStops(EmptyDict, Get(archive.stops).rows)
                      ELSE EmptyDict
        headsigns1 == IF IsSome(archive.trips)
                      THEN ParseTrips(headsigns, Get(archive.trips).rows)
                      ELSE headsigns
        terminus1  == IF IsSome(archive.stop_times)
                      THEN ParseStopTimes(terminus, stop_names, Get(archive.stop_times))
                      ELSE terminus
    IN  IF download.status # "ok" THEN failed(headsigns, terminus)
        ELSE IF IsSome(archive.stops) /\ Get(archive.stops).bad
        THEN failed(headsigns, terminus)
        ELSE IF IsSome(archive.trips) /\ Get(archive.trips).bad
        THEN failed(headsigns1, terminus)
        ELSE IF ~IsSome(archive.stop_times)
        THEN [headsigns |-> headsigns1, terminus |-> terminus, file |-> file,
              outcome |-> "incomplete", saved |-> FALSE]
        ELSE IF Get(archive.stop_times).bad
        THEN failed(headsigns1, terminus1)
        ELSE [headsigns |-> headsigns1, terminus |-> terminus1,
              file      |-> SaveCache(save, file, now, headsigns1, terminus1),
              outcome   |-> "built",
              saved     |-> save = "ok"]

\* load_gtfs_trip_headsigns: the cache branch, else the build
load_gtfs_trip_headsigns(file, now, headsigns, terminus, download, save) ==
    IF CacheHit(file, now)
    THEN [headsigns  |-> CachedDict(Get(file).trip_headsigns),
          terminus   |-> CachedDict(Get(file).trip_terminus),
          file       |-> file,
          outcome    |-> "cache",
          saved      |-> FALSE,
          downloaded |-> FALSE]
    ELSE [downloaded |-> TRUE]
         @@ BuildFromArchive(file, now, headsigns, terminus, download, save)

(***************************************************************************)
(* The JSON sources (lines 422-631).  An answer to a GET is its status     *)
(* ("ok", an HTTP error, a transport failure), whether the body decodes    *)
(* as JSON, whether the decoded value is an object, and the object as a    *)
(* record: a key the object lacks is not in the record's domain.  A JSON   *)
(* number is an integer; a value that may be of another type is a record   *)
(* [type, n].                                                              *)
(***************************************************************************)
\* dict.get(key, default)
DictGetOr(dict, key, default) == IF key \in DOMAIN dict THEN dict[key] ELSE default

\* requests.get raises on a transport failure, raise_for_status on an HTTP
\* error status, response.json() on a body that is not JSON, and .get on a
\* decoded value that is not an object
AnswerRaises(answer) == answer.status # "ok" \/ ~answer.json \/ ~answer.object

\* data.get('data', {}).get('stations', [])
StationsOf(body) == DictGetOr(DictGetOr(body, "data", EmptyDict), "stations", <<>>)

\* str(sid): a station id is an int or a str in the feed
Str(sid) == [sid EXCEPT !.int = FALSE]

\* lines 442-446: station_info_map holds every station of the information
\* feed under its id and under the str of its id, the later station
\* replacing the earlier; this is the station the map holds under key
InfoUnder(stations, key) ==
    LET hits == {i \in 1..Len(stations) :
                    /\ "station_id" \in DOMAIN stations[i]
                    /\ (stations[i].station_id = key
                        \/ Str(stations[i].station_id) = key)}
    IN  IF hits = {} THEN EmptyDict
        ELSE stations[CHOOSE i \in hits : \A j \in hits : j <= i]

\* line 458: the lookup by the id as the status feed gives it, then by its
\* str, then the empty dict
StationInfo(stations, sid) ==
    IF DOMAIN InfoUnder(stations, sid) # {} THEN InfoUnder(stations, sid)
    ELSE InfoUnder(stations, Str(sid))

\* lines 455-468: the record of one station of the status feed
StationRecord(station_status, info_stations) ==
    LET sid          == DictGetOr(station_status, "station_id",
                                  [int |-> FALSE, text |-> ""])
        station_id   == Str(sid)
        station_info == StationInfo(info_stations, sid)
    IN  [station_id      |-> station_id.text,
         name            |-> DictGetOr(station_info, "name",
                                       <<"Station ", station_id.text>>),
         bikes_available |-> DictGetOr(station_status, "num_bikes_available", 0),
         docks_available |-> DictGetOr(station_status, "num_docks_available", 0),
         is_renting      |-> DictGetOr(station_status, "is_renting", FALSE),
         is_returning    |-> DictGetOr(station_status, "is_returning", FALSE)]

\* lines 427-472, the try block: two GETs, then the stations of the status
\* feed whose id is one of the configured ones, in the feed's order
FetchBixiTry(station_ids, status_answer, info_answer) ==
    IF AnswerRaises(status_answer)
    THEN [raised |-> TRUE, value |-> <<>>, requests |-> 1]
    ELSE IF AnswerRaises(info_answer)
    THEN [raised |-> TRUE, value |-> <<>>, requests |-> 2]
    ELSE LET all  == StationsOf(status_answer.body)
             mine == SelectSeq(all, LAMBDA st :
                        Str(DictGetOr(st, "station_id",
                                      [int |-> FALSE, text |-> ""])).text
                            \in station_ids)
         IN  [raised   |-> FALSE,
              value    |-> [i \in 1..Len(mine) |->
                               StationRecord(mine[i], StationsOf(info_answer.body))],
              requests |-> 2]

fetch_bixi_status(station_ids, status_answer, info_answer) ==
    Absorb(FetchBixiTry(station_ids, status_answer, info_answer), <<>>)

\* lines 500-511
ConditionPairs ==
    { <<0, "Clear">>, <<1, "Mainly Clear">>, <<2, "Partly Cloudy">>, <<3, "Overcast">>,
      <<45, "Foggy">>, <<48, "Depositing Rime Fog">>,
      <<51, "Light Drizzle">>, <<53, "Moderate Drizzle">>, <<55, "Dense Drizzle">>,
      <<56, "Light Freezing Drizzle">>, <<57, "Dense Freezing Drizzle">>,
      <<61, "Slight Rain">>, <<63, "Moderate Rain">>, <<65, "Heavy Rain">>,
      <<66, "Light Freezing Rain">>, <<67, "Heavy Freezing Rain">>,
      <<71, "Slight Snow">>, <<73, "Moderate Snow">>, <<75, "Heavy Snow">>,
      <<77, "Snow Grains">>, <<80, "Slight Rain Showers">>,
      <<81, "Moderate Rain Showers">>, <<82, "Violent Rain Showers">>,
      <<85, "Slight Snow Showers">>, <<86, "Heavy Snow Showers">>,
      <<95, "Thunderstorm">>, <<96, "Thunderstorm with Hail">>,
      <<99, "Thunderstorm with Heavy Hail">> }

condition_map ==
    [code \in {p[1] : p \in ConditionPairs} |->
        (CHOOSE p \in ConditionPairs : p[1] = code)[2]]

\* lines 483-529, the try block
FetchWeatherTry(answer) ==
    IF AnswerRaises(answer) THEN [raised |-> TRUE, value |-> EmptyDict, requests |-> 1]
    ELSE LET current      == DictGetOr(answer.body, "current", EmptyDict)
             units        == DictGetOr(answer.body, "current_units", EmptyDict)
             weather_code == DictGetOr(current, "weather_code", 0)
         IN  [raised   |-> FALSE,
              requests |-> 1,
              value    |->
                [temperature  |-> DictGetOr(current, "temperature_2m", 0),
                 feels_like   |-> DictGetOr(current, "apparent_temperature", 0),
                 condition    |-> DictGetOr(condition_map, weather_code, "Unknown"),
                 weather_code |-> weather_code,
                 wind_speed   |-> DictGetOr(current, "wind_speed_10m", 0),
                 wind_direction |-> DictGetOr(current, "wind_direction_10m", 0),
                 precipitation_probability |->
                     DictGetOr(current, "precipitation_probability", 0),
                 humidity     |-> DictGetOr(current, "relative_humidity_2m", 0),
                 units        |->
                     [temperature |-> DictGetOr(units, "temperature_2m", "C"),
                      wind_speed  |-> DictGetOr(units, "wind_speed_10m", "km/h")]]]

fetch_weather(answer) == Absorb(FetchWeatherTry(answer), EmptyDict)


\* lines 556-573: the tier of an AQI value
\* (variant: the upper bounds are exclusive)
AqiTierExclusive(aqi_value) ==
    IF aqi_value < 50 THEN [category |-> "Good", severity |-> "info"]
    ELSE IF aqi_value < 100 THEN [category |-> "Moderate", severity |-> "info"]
    ELSE IF aqi_value < 150
    THEN [category |-> "Unhealthy for Sensitive Groups", severity |-> "warning"]
    ELSE IF aqi_value < 200 THEN [category |-> "Unhealthy", severity |-> "warning"]
    ELSE IF aqi_value < 300 THEN [category |-> "Very Unhealthy", severity |-> "critical"]
    ELSE [category |-> "Hazardous", severity |-> "critical"]

AqiTier(aqi_value) ==
    IF aqi_value <= 50 THEN [category |-> "Good", severity |-> "info"]
    ELSE IF aqi_value <= 100 THEN [category |-> "Moderate", severity |-> "info"]
    ELSE IF aqi_value <= 150
    THEN [category |-> "Unhealthy for Sensitive Groups", severity |-> "warning"]
    ELSE IF aqi_value <= 200 THEN [category |-> "Unhealthy", severity |-> "warning"]
    ELSE IF aqi_value <= 300 THEN [category |-> "Very Unhealthy", severity |-> "critical"]
    ELSE [category |-> "Hazardous", severity |-> "critical"]

\* a JSON value that is a number
Number(n) == [type |-> "number", n |-> n]

\* line 587: what fetch_aqi returns from its except clause
NeutralAqi == [value |-> 0, category |-> "Unknown", severity |-> "info"]

\* lines 540-584, the try block.  european_aqi may be a number, null or a
\* string in the answer; the comparison at line 556 raises TypeError on
\* the last two.
FetchAqiTry(answer) ==
    IF AnswerRaises(answer) THEN [raised |-> TRUE, value |-> NeutralAqi, requests |-> 1]
    ELSE LET current   == DictGetOr(answer.body, "current", EmptyDict)
             aqi_value == DictGetOr(current, "european_aqi", Number(0))
         IN  IF aqi_value.type # "number"
             THEN [raised |-> TRUE, value |-> NeutralAqi, requests |-> 1]
             ELSE [raised   |-> FALSE,
                   requests |-> 1,
                   value    |->
                     [value    |-> aqi_value.n,
                      category |-> AqiTier(aqi_value.n).category,
                      severity |-> AqiTier(aqi_value.n).severity,
                      pm2_5    |-> DictGetOr(current, "pm2_5", 0),
                      pm10     |-> DictGetOr(current, "pm10", 0)]]

fetch_aqi(answer) == Absorb(FetchAqiTry(answer), NeutralAqi)

\* line 631: what calculate_sunrise_sunset returns when the try block has
\* not returned
NoSunTimes == [sunrise |-> <<"N/A">>, sunset |-> <<"N/A">>]

\* lines 595-627, the try block.  A time of the answer is a str: in ISO
\* format (its date and time of day) or not, and then fromisoformat raises
\* ValueError.  With an empty list the block ends without returning.
CalculateSunTry(answer) ==
    IF AnswerRaises(answer) THEN [raised |-> TRUE, value |-> NoSunTimes, requests |-> 1]
    ELSE LET daily         == DictGetOr(answer.body, "daily", EmptyDict)
             sunrise_times == DictGetOr(daily, "sunrise", <<>>)
             sunset_times  == DictGetOr(daily, "sunset", <<>>)
         IN  IF sunrise_times = <<>> \/ sunset_times = <<>>
             THEN [raised |-> FALSE, value |-> NoSunTimes, requests |-> 1]
             ELSE IF ~sunrise_times[1].iso \/ ~sunset_times[1].iso
             THEN [raised |-> TRUE, value |-> NoSunTimes, requests |-> 1]
             ELSE [raised   |-> FALSE,
                   requests |-> 1,
                   value    |->
                     [sunrise     |-> HourMinute(FromIsoFormat(sunrise_times[1])),
                      sunset      |-> HourMinute(FromIsoFormat(sunset_times[1])),
                      sunrise_iso |-> sunrise_times[1],
                      sunset_iso  |-> sunset_times[1]]]

calculate_sunrise_sunset(answer) == Absorb(CalculateSunTry(answer), NoSunTimes)

\* lines 704-709: AQI and the sun's times go into the weather dict, when
\* that dict is not empty
\* (variant: the AQI is left out of the weather dict)
MergeWeatherWithoutAqi(weather, aqi, sunrise_sunset) ==
    IF DOMAIN weather = {} THEN weather
    ELSE IF DOMAIN sunrise_sunset # {}
    THEN [sunrise |-> DictGetOr(sunrise_sunset, "sunrise", <<"N/A">>),
          sunset  |-> DictGetOr(sunrise_sunset, "sunset", <<"N/A">>)] @@ weather
    ELSE weather

MergeWeather(weather, aqi, sunrise_sunset) ==
    IF DOMAIN weather = {} THEN weather
    ELSE LET with_aqi == IF DOMAIN aqi # {} THEN [aqi |-> aqi] @@ weather
                         ELSE weather
         IN  IF DOMAIN sunrise_sunset # {}
             THEN [sunrise |-> DictGetOr(sunrise_sunset, "sunrise", <<"N/A">>),
                   sunset  |-> DictGetOr(sunrise_sunset, "sunset", <<"N/A">>)]
                  @@ with_aqi
             ELSE with_aqi

\* CONFIG['bixi']['station_ids']
StationIds == {"7", "8"}

\* lines 711-719: the payload made of the five fetches' results (the
\* handler's locals departures, bixi_stations, weather, aqi,
\* sunrise_sunset).  An exception that leaves a fetch leaves the handler
\* too, and the framework answers 500.
DashboardResponse(fetched, now) ==
    IF \E k \in DOMAIN fetched : fetched[k].raised
    THEN [status |-> 500, fetched |-> fetched, payload |-> None]
    ELSE [status  |-> 200,
          fetched |-> fetched,
          payload |->
            Some([transit      |-> [departures |-> fetched.departures.value],
                  bixi         |-> [stations |-> fetched.bixi_stations.value],
                  weather      |-> MergeWeather(fetched.weather.value,
                                                fetched.aqi.value,
                                                fetched.sunrise_sunset.value),
                  last_updated |-> IsoFormat(now)])]

\* get_dashboard (lines 685-719): the five fetches, the merge, the payload
get_dashboard(config, gtfs_available, answers, now, headsigns) ==
    DashboardResponse(
        [departures     |-> fetch_stm_departures(config.stop_ids, config,
                                gtfs_available, answers.transit, now, headsigns),
         bixi_stations  |-> fetch_bixi_status(StationIds, answers.bixi_status,
                                              answers.bixi_info),
         weather        |-> fetch_weather(answers.weather),
         aqi            |-> fetch_aqi(answers.aqi),
         sunrise_sunset |-> calculate_sunrise_sunset(answers.sun)],
        now)

(***************************************************************************)
(* The environment: archives, feeds, configurations                        *)
(***************************************************************************)
\* trips.txt: numeric trip ids, as the agency publishes them
TripsRows ==
    << [trip_id |-> <<"1">>, trip_headsign |-> <<"N","o","r","d">>],
       [trip_id |-> <<"2">>, trip_headsign |-> <<"S","u","d">>],
       [trip_id |-> <<"3">>, trip_headsign |-> <<"O","u","e","s","t">>],
       [trip_id |-> <<"4">>, trip_headsign |-> <<"S","u","d"," ","v","i","a"," ","A">>],
       [trip_id |-> <<"5">>, trip_headsign |-> <<"S","t","a","t","i","o","n"," ","A">>],
       [trip_id |-> <<"6">>, trip_headsign |-> <<"S","t","a","t","i","o","n"," ">>],
       [trip_id |-> <<"7">>,
        trip_headsign |-> <<"D","e","s","t","i","n","a","t","i","o","n"," ","S","u","d">>],
       [trip_id |-> <<"8">>,
        trip_headsign |-> <<"d","e","s","t","i","n","a","t","i","o","n"," ","S","o","u","t","h">>],
       [trip_id |-> <<"9">>, trip_headsign |-> <<>>],
       [trip_id |-> <<"1","0">>,
        trip_headsign |-> <<"W","e","s","t","m","o","u","n","t">>] >>

StopsRows ==
    << [stop_id |-> <<"5","1">>, stop_name |-> <<"A">>],
       [stop_id |-> <<"5","2">>, stop_name |-> <<"B"," ">>],
       [stop_id |-> <<"5","3">>, stop_name |-> <<>>] >>

StopTimesRows ==
    << [trip_id |-> <<"1">>, stop_id |-> <<"5","1">>],
       [trip_id |-> <<"1">>, stop_id |-> <<"5","2">>],
       [trip_id |-> <<"2">>, stop_id |-> <<"5","2">>],
       [trip_id |-> <<"2">>, stop_id |-> <<"5","3">>],
       [trip_id |-> <<"3">>, stop_id |-> <<"5","1">>] >>

\* a table read to its end, and one whose reader raises after two rows
Good(rows) == [rows |-> rows, bad |-> FALSE]
Bad(rows) == [rows |-> SubSeq(rows, 1, 2), bad |-> TRUE]

NoArchive == [stops |-> None, trips |-> None, stop_times |-> None]

\* the answers to the GET of the archive: a failure, the complete archive,
\* and the archives with one table broken off or missing
CompleteArchive ==
    [stops      |-> Some(Good(StopsRows)),
     trips      |-> Some(Good(TripsRows)),
     stop_times |-> Some(Good(StopTimesRows))]

Downloads ==
    {[status |-> "error", archive |-> NoArchive]}
    \cup {[status |-> "ok", archive |-> a] :
             a \in {CompleteArchive}
                \cup {[CompleteArchive EXCEPT !.stops = t] :
                         t \in {None, Some(Bad(StopsRows))}}
                \cup {[CompleteArchive EXCEPT !.trips = t] :
                         t \in {None, Some(Bad(TripsRows))}}
                \cup {[CompleteArchive EXCEPT !.stop_times = t] :
                         t \in {None, Some(Bad(StopTimesRows))}}}

Saves == {"ok", "open_error", "truncated_empty", "truncated_partial"}

\* stop_times.txt in every order: all the tables of up to MaxRows rows over
\* two trips and three stops (one with a name in stops.txt, one without,
\* and the empty stop_id)
MaxRows == 4

StopTimesRowSet ==
    {[trip_id |-> t, stop_id |-> s] :
        t \in {<<"1">>, <<"2">>}, s \in {<<"5","1">>, <<"5","3">>, <<>>}}

StopTimesTables == UNION {[1..n -> StopTimesRowSet] : n \in 0..MaxRows}

TerminusDownloads ==
    {[status |-> "ok",
      archive |-> [CompleteArchive EXCEPT !.stop_times = Some(Good(rows))]] :
        rows \in StopTimesTables}

\* CONFIG['transit']: with the key and two stops, with an empty key, with
\* no key at all, without stops
Configs ==
    { [api_key |-> "key", stop_ids |-> {"S1", "S2"}],
      [api_key |-> "",    stop_ids |-> {"S1", "S2"}],
      [stop_ids |-> {"S1", "S2"}],
      [api_key |-> "key", stop_ids |-> {}] }

\* seconds after "now" at which the feed's events fall: around both ends of
\* the window, and around the minute boundaries
Offsets == {-61, -60, -1, 0, 60, 3600, 3659, 3660}

\* the stop-time updates of the feeds: at a configured stop, every choice
\* of arrival (absent, set without a time, set) with the departure absent
\* or set; and one update at a stop that is not configured
StopTimeUpdates(now) ==
    {[stop_id |-> "S1", arrival |-> a, departure |-> d] :
        a \in {None, Some(0)} \cup {Some(now + o) : o \in Offsets},
        d \in {None, Some(now + 120)}}
    \cup {[stop_id |-> "S9", arrival |-> Some(now + 60), departure |-> None]}

Repeat(u, n) == [i \in 1..n |-> u]

\* how far a long trip's list of updates goes past the cap
Overflow == 1

\* the stop_time_update lists: none, one update, a late one before an
\* early one, and runs of one update up to and past the cap
StopTimeLists(now) ==
    LET at(o) == [stop_id |-> "S1", arrival |-> Some(now + o), departure |-> None]
    IN  {<<>>}
        \cup {<<u>> : u \in StopTimeUpdates(now)}
        \cup {<<at(3600), at(60)>>}
        \cup {Repeat(at(o), n) : o \in {600, 3600},
                                 n \in {MaxDepartures, MaxDepartures + Overflow}}

TripIds ==
    {<<"1">>, <<"2">>, <<"3">>, <<"4">>, <<"5">>, <<"6">>, <<"7">>, <<"8">>, <<"0">>,
     <<"1","0">>}

\* the trip descriptors: every route with every trip id, the direction
\* flag varied on the trips without a cardinal
TripDescriptors ==
    {[route_id |-> r, trip_id |-> t, direction_id |-> d] :
        r \in {Some("57"), Some("71"), Some("24"), None},
        t \in {Some(id) : id \in TripIds} \cup {None},
        d \in {Some(0)}}
    \cup {[route_id |-> r, trip_id |-> t, direction_id |-> d] :
        r \in {Some("57"), Some("24")},
        t \in {Some(<<"1">>), Some(<<"0">>), None},
        d \in {Some(1), None}}

Entities(now) ==
    {[has_trip_update |-> TRUE, trip |-> t, stop_time_update |-> l] :
        t \in TripDescriptors, l \in StopTimeLists(now)}
    \cup {[has_trip_update |-> FALSE,
           trip |-> [route_id |-> None, trip_id |-> None, direction_id |-> None],
           stop_time_update |-> <<>>]}

\* entities that precede the varied one: a full run of late departures on
\* a route without overrides, and one departure in between
Background(now) ==
    LET at(o) == [stop_id |-> "S2", arrival |-> Some(now + o), departure |-> None]
        trip  == [route_id |-> Some("24"), trip_id |-> Some(<<"3">>),
                  direction_id |-> Some(1)]
    IN  { [has_trip_update |-> TRUE, trip |-> trip,
           stop_time_update |-> Repeat(at(1800), MaxDepartures)],
          [has_trip_update |-> TRUE, trip |-> trip,
           stop_time_update |-> <<at(1800)>>] }

Feeds(now) ==
    {<<e>> : e \in Entities(now)}
    \cup {<<b, e>> : b \in Background(now), e \in Entities(now)}

\* the upstream's answers to the GET of the real-time feed
Responses(now) ==
    {[status |-> s, parses |-> FALSE, entities |-> <<>>] :
        s \in {"ok", "http_401", "http_403", "http_500", "timeout"}}
    \cup {[status |-> "ok", parses |-> TRUE, entities |-> f] : f \in Feeds(now)}

\* two answers, for the runs that are about the cache
ProbeResponses(now) ==
    {[status |-> "timeout", parses |-> FALSE, entities |-> <<>>],
     [status |-> "ok", parses |-> TRUE,
      entities |-> <<[has_trip_update |-> TRUE,
                      trip |-> [route_id |-> Some("71"), trip_id |-> Some(<<"1">>),
                                direction_id |-> Some(0)],
                      stop_time_update |->
                          <<[stop_id |-> "S1", arrival |-> Some(now + 60),
                             departure |-> None]>>]>>]}

\* the answers of a JSON source that make its fetch fail: no answer, an
\* HTTP error, a body that is not JSON, a JSON value that is not an object
Unanswered ==
    [status |-> "timeout", json |-> FALSE, object |-> FALSE, body |-> EmptyDict]

FailedAnswers ==
    { Unanswered,
      [status |-> "http_500", json |-> FALSE, object |-> FALSE, body |-> EmptyDict],
      [status |-> "ok", json |-> FALSE, object |-> FALSE, body |-> EmptyDict],
      [status |-> "ok", json |-> TRUE, object |-> FALSE, body |-> EmptyDict] }

JsonAnswer(body) == [status |-> "ok", json |-> TRUE, object |-> TRUE, body |-> body]

\* station_status.json: a configured station with an int id, one with a str
\* id and nothing else, one that is not configured; or an object without
\* stations
BixiStatusAnswers ==
    { Unanswered,
      [status |-> "ok", json |-> FALSE, object |-> FALSE, body |-> EmptyDict],
      JsonAnswer(EmptyDict),
      JsonAnswer([data |-> [stations |->
          << [station_id |-> [int |-> TRUE, text |-> "7"],
              num_bikes_available |-> 3, num_docks_available |-> 9,
              is_renting |-> TRUE, is_returning |-> TRUE],
             [station_id |-> [int |-> FALSE, text |-> "9"],
              num_bikes_available |-> 1, num_docks_available |-> 1,
              is_renting |-> TRUE, is_returning |-> TRUE],
             [station_id |-> [int |-> FALSE, text |-> "8"]] >>]]) }

\* station_information.json: a name for station 7 only
BixiInfoAnswers ==
    { Unanswered,
      JsonAnswer([data |-> [stations |->
          << [station_id |-> [int |-> FALSE, text |-> "7"], name |-> <<"Berri">>] >>]]) }

WeatherAnswers ==
    { Unanswered,
      [status |-> "ok", json |-> TRUE, object |-> FALSE, body |-> EmptyDict],
      JsonAnswer(EmptyDict),
      JsonAnswer([current |-> [temperature_2m |-> 21, apparent_temperature |-> 19,
                               weather_code |-> 61, wind_speed_10m |-> 12,
                               wind_direction_10m |-> 270,
                               precipitation_probability |-> 80,
                               relative_humidity_2m |-> 65],
                  current_units |-> [temperature_2m |-> "C",
                                     wind_speed_10m |-> "km/h"]]) }

\* european_aqi around every bound of the tiers
AqiValues == {-1, 0, 50, 51, 100, 101, 150, 151, 200, 201, 300, 301, 500}

AqiAnswers ==
    FailedAnswers
    \cup {JsonAnswer([current |-> [european_aqi |-> Number(v), pm2_5 |-> 4,
                                   pm10 |-> 6]]) : v \in AqiValues}
    \cup {JsonAnswer([current |-> [european_aqi |-> [type |-> t, n |-> 0]]]) :
             t \in {"null", "string"}}
    \cup {JsonAnswer(EmptyDict)}

\* the daily times: today's sunrise and sunset, empty lists, a sunrise
\* that is not in ISO format
SunAnswers(now) ==
    LET at(h, m) == [iso |-> TRUE, date |-> IsoFormat(now).date,
                     time |-> h * SecondsPerHour + m * SecondsPerMinute]
    IN  { Unanswered,
          [status |-> "http_500", json |-> FALSE, object |-> FALSE, body |-> EmptyDict],
          JsonAnswer([daily |-> [sunrise |-> <<at(6, 5)>>, sunset |-> <<at(19, 40)>>]]),
          JsonAnswer([daily |-> [sunrise |-> <<>>, sunset |-> <<>>]]),
          JsonAnswer([daily |-> [sunrise |-> <<[iso |-> FALSE, date |-> 0, time |-> 0]>>,
                                 sunset  |-> <<at(19, 40)>>]]) }

\* the answers of the five sources to one GET /api/dashboard
DashboardAnswers(now) ==
    [transit     : ProbeResponses(now),
     bixi_status : BixiStatusAnswers,
     bixi_info   : BixiInfoAnswers,
     weather     : WeatherAnswers,
     aqi         : AqiAnswers,
     sun         : SunAnswers(now)]

(***************************************************************************)
(* State                                                                   *)
(***************************************************************************)
VARIABLES
    clock,                \* datetime.now(), seconds since 2000-01-01
    cacheFile,            \* GTFS_CACHE_FILE: None, or the document on disk
    GTFS_TRIP_HEADSIGNS,  \* the module's dict trip_id -> headsign
    GTFS_TRIP_TERMINUS,   \* the module's dict trip_id -> terminus name
    CONFIG,               \* CONFIG['transit']
    GTFS_AVAILABLE,       \* whether the protobuf bindings were imported
    phase,                \* "boot": the dicts exist, the load has not run;
                          \* "serving": the load at line 189 has returned
    call,                 \* the last fetch_stm_departures call: its now, the
                          \* upstream's answer, the requests it sent
    departures,           \* what that call returned
    lastLoad,             \* history: the load of this process: its outcome and
                          \* what it found on disk
    downloads,            \* history: GETs of the archive so far
    generation,           \* history: when the data in the dicts was built
    saved,                \* history: the dicts as a completed save wrote them
    starts,               \* history: process starts so far
    ticks,                \* history: clock steps so far
    dashboard,            \* the last GET /api/dashboard: the upstreams' answers
                          \* and the response
    workers               \* the worker processes that import the module side
                          \* by side: each one's place in the load and its
                          \* own copy of the dicts

vars == <<clock, cacheFile, GTFS_TRIP_HEADSIGNS, GTFS_TRIP_TERMINUS, CONFIG,
          GTFS_AVAILABLE, phase, call, departures, lastLoad, downloads,
          generation, saved, starts, ticks, dashboard, workers>>

cacheVars == <<cacheFile, GTFS_TRIP_HEADSIGNS, GTFS_TRIP_TERMINUS, lastLoad,
               downloads, generation, saved>>

\* bounds of the runs
MaxStarts == 2
MaxTicks == 2
StartDay == 30

TtlSeconds == CacheTtlDays * DaySeconds

\* the clock's steps: a second, and a second less than the freshness window
TickSteps == {1, TtlSeconds - 1}

(***************************************************************************)
(* Operations                                                              *)
(***************************************************************************)
NoResponse == [status |-> "none", parses |-> FALSE, entities |-> <<>>]

\* history: no load has run in this process
NotLoaded == [outcome |-> "none", found |-> "none", archive |-> None]

\* no worker processes beside this one
NoWorkers == <<>>

\* lines 85-89: the module's globals before the load at line 189
Boot(config, available) ==
    /\ clock = StartDay * DaySeconds
    /\ cacheFile = None
    /\ GTFS_TRIP_HEADSIGNS = EmptyDict
    /\ GTFS_TRIP_TERMINUS = EmptyDict
    /\ CONFIG = config
    /\ GTFS_AVAILABLE = available
    /\ phase = "boot"
    /\ call = None
    /\ departures = <<>>
    /\ lastLoad = NotLoaded
    /\ downloads = 0
    /\ generation = None
    /\ saved = None
    /\ starts = 1
    /\ ticks = 0
    /\ dashboard = None
    /\ workers = NoWorkers

\* history: what the load found on disk
Found(file, now) ==
    IF ~IsSome(file) THEN "absent"
    ELSE IF ~Get(file).mapping THEN "unreadable"
    ELSE IF now - CacheTime(Get(file)) < TtlSeconds THEN "fresh"
    ELSE "stale"

\* line 189 (and the same call in every later process): the whole of
\* load_gtfs_trip_headsigns, with the archive's answer and the fate of the
\* write as inputs
LoadGtfsFrom(archives, saves) ==
    /\ phase = "boot"
    /\ \E download \in archives, save \in saves :
          \E r \in {load_gtfs_trip_headsigns(cacheFile, clock, GTFS_TRIP_HEADSIGNS,
                                               GTFS_TRIP_TERMINUS, download, save)} :
              /\ GTFS_TRIP_HEADSIGNS' = r.headsigns
              /\ GTFS_TRIP_TERMINUS' = r.terminus
              /\ cacheFile' = r.file
              /\ lastLoad' = [outcome |-> r.outcome,
                               found   |-> Found(cacheFile, clock),
                               archive |-> IF r.downloaded /\ download.status = "ok"
                                           THEN Some(download.archive)
                                           ELSE None]
              /\ downloads' = downloads + (IF r.downloaded THEN 1 ELSE 0)
              /\ generation' =
                    IF r.outcome = "cache" THEN Some(CacheTime(Get(cacheFile)))
                    ELSE IF download.status = "ok" THEN Some(clock)
                    ELSE None
              /\ saved' =
                    IF r.saved
                    THEN Some([headsigns |-> r.headsigns, terminus |-> r.terminus])
                    ELSE IF r.file = cacheFile THEN saved
                    ELSE None
    /\ phase' = "serving"
    /\ UNCHANGED <<clock, CONFIG, GTFS_AVAILABLE, call, departures, starts, ticks,
                   dashboard, workers>>

LoadGtfs == LoadGtfsFrom(Downloads, Saves)

\* the process ends and a new one imports the module: lines 88-89 run again,
\* the file stays
Restart ==
    /\ phase = "serving"
    /\ starts < MaxStarts
    /\ starts' = starts + 1
    /\ phase' = "boot"
    /\ GTFS_TRIP_HEADSIGNS' = EmptyDict
    /\ GTFS_TRIP_TERMINUS' = EmptyDict
    /\ call' = None
    /\ departures' = <<>>
    /\ lastLoad' = NotLoaded
    /\ generation' = None
    /\ dashboard' = None
    /\ UNCHANGED <<clock, cacheFile, CONFIG, GTFS_AVAILABLE, downloads, saved, ticks,
                   workers>>

\* time passes
Tick ==
    /\ ticks < MaxTicks
    /\ ticks' = ticks + 1
    /\ \E d \in TickSteps : clock' = clock + d
    /\ UNCHANGED <<cacheFile, GTFS_TRIP_HEADSIGNS, GTFS_TRIP_TERMINUS, CONFIG,
                   GTFS_AVAILABLE, phase, call, departures, lastLoad, downloads,
                   generation, saved, starts, dashboard, workers>>

\* GET /api/transit (lines 634-640): one call of fetch_stm_departures with
\* the configured stops.  The function keeps nothing from one call to the
\* next, so one call per process stands for all of them.
FetchStmDepartures(responses) ==
    /\ phase = "serving"
    /\ call = None
    /\ \E response \in responses :
          \E r \in {fetch_stm_departures(CONFIG.stop_ids, CONFIG, GTFS_AVAILABLE,
                                           response, clock, GTFS_TRIP_HEADSIGNS)} :
              /\ departures' = r.value
              /\ call' = Some([now      |-> clock,
                               requests |-> r.requests,
                               raised   |-> r.raised,
                               response |-> IF r.requests = 0 THEN NoResponse
                                            ELSE response])
    /\ UNCHANGED <<clock, cacheFile, GTFS_TRIP_HEADSIGNS, GTFS_TRIP_TERMINUS,
                   CONFIG, GTFS_AVAILABLE, phase, lastLoad, downloads, generation,
                   saved, starts, ticks, dashboard, workers>>

\* GET /api/dashboard (lines 685-719): one call of get_dashboard.  The
\* handler keeps nothing from one call to the next.
GetDashboard(answer_sets) ==
    /\ phase = "serving"
    /\ dashboard = None
    /\ \E answers \in answer_sets :
          \E r \in {get_dashboard(CONFIG, GTFS_AVAILABLE, answers, clock,
                                  GTFS_TRIP_HEADSIGNS)} :
              dashboard' = Some([answers |-> answers,
                                 status  |-> r.status,
                                 fetched |-> r.fetched,
                                 payload |-> r.payload])
    /\ UNCHANGED <<clock, cacheFile, GTFS_TRIP_HEADSIGNS, GTFS_TRIP_TERMINUS,
                   CONFIG, GTFS_AVAILABLE, phase, call, departures, lastLoad,
                   downloads, generation, saved, starts, ticks, workers>>

\* Worker processes.  A server that runs the application in several worker
\* processes imports the module in each of them, so each runs the load of
\* line 189 on its own copy of the dicts and on the one cache file.  The
\* load is cut where another process can see or change the file: after
\* the test of the cache (lines 101-113), after the download and the parse
\* (lines 116-170), after open() has truncated the file (line 174), and
\* in the middle of the write (lines 175-179), which goes to the disk
\* buffer by buffer.
NumWorkers == 2

\* a worker: its place in the load, its dicts, how its load ended, and
\* whether it has looked a trip up for a request
WorkerStart ==
    [pc |-> "start", headsigns |-> EmptyDict, terminus |-> EmptyDict,
     outcome |-> "none", looked_up |-> FALSE]

\* the archives the workers get
WorkerDownloads ==
    { [status |-> "error", archive |-> NoArchive],
      [status |-> "ok", archive |-> CompleteArchive],
      [status |-> "ok",
       archive |-> [CompleteArchive EXCEPT !.trips = Some(Bad(TripsRows))]] }

\* the places of a load between its test of the cache and the end of its
\* write, and those at which it holds the file open for writing
Rebuilding == {"download", "open", "write_headsigns", "write_terminus"}

Writing == {"write_headsigns", "write_terminus"}

workerFrame ==
    <<clock, GTFS_TRIP_HEADSIGNS, GTFS_TRIP_TERMINUS, CONFIG, GTFS_AVAILABLE,
      phase, call, departures, lastLoad, generation, saved, starts, ticks,
      dashboard>>

\* lines 101-113
WorkerCheckCache(w) ==
    /\ workers[w].pc = "start"
    /\ workers' =
          [workers EXCEPT ![w] =
              IF CacheHit(cacheFile, clock)
              THEN [pc        |-> "serving",
                    headsigns |-> CachedDict(Get(cacheFile).trip_headsigns),
                    terminus  |-> CachedDict(Get(cacheFile).trip_terminus),
                    outcome   |-> "cache",
                    looked_up |-> FALSE]
              ELSE [@ EXCEPT !.pc = "download"]]
    /\ UNCHANGED <<cacheFile, downloads>>
    /\ UNCHANGED workerFrame

\* lines 116-170 and the except clause at 184-186: the GET and the parse;
\* the load goes on to the save only from line 170
WorkerBuild(w) ==
    /\ workers[w].pc = "download"
    /\ \E download \in WorkerDownloads :
          \E r \in {BuildFromArchive(cacheFile, clock, workers[w].headsigns,
                                     workers[w].terminus, download, "open_error")} :
              workers' =
                  [workers EXCEPT ![w] =
                      [pc        |-> IF r.outcome = "built" THEN "open" ELSE "serving",
                       headsigns |-> r.headsigns,
                       terminus  |-> r.terminus,
                       outcome   |-> r.outcome,
                       looked_up |-> FALSE]]
    /\ downloads' = downloads + 1
    /\ UNCHANGED cacheFile
    /\ UNCHANGED workerFrame

\* line 174: open(GTFS_CACHE_FILE, 'w') empties the file
WorkerOpen(w) ==
    /\ workers[w].pc = "open"
    /\ cacheFile' = Some(EmptyDocument)
    /\ workers' = [workers EXCEPT ![w].pc = "write_headsigns"]
    /\ UNCHANGED downloads
    /\ UNCHANGED workerFrame

\* lines 175-179: the document reaches the file in two parts, up to the end
\* of trip_headsigns and then the rest.  When another worker holds the
\* file open for writing as well, the bytes of the two mix: the file is
\* this worker's part or a text that is no YAML mapping.
WorkerWrite(w) ==
    /\ workers[w].pc \in Writing
    /\ \E written \in
          {IF workers[w].pc = "write_headsigns"
           THEN TruncatedDocument(clock, workers[w].headsigns)
           ELSE DumpCache(clock, workers[w].headsigns, workers[w].terminus)} :
          IF \E v \in DOMAIN workers : v # w /\ workers[v].pc \in Writing
          THEN cacheFile' \in {Some(written), Some(EmptyDocument)}
          ELSE cacheFile' = Some(written)
    /\ workers' = [workers EXCEPT ![w].pc = IF @ = "write_headsigns"
                                            THEN "write_terminus" ELSE "serving"]
    /\ UNCHANGED downloads
    /\ UNCHANGED workerFrame

\* line 337, in a request the worker serves once its import is over:
\* GTFS_TRIP_HEADSIGNS.get(trip_id) reads the worker's dict as it is
WorkerLookup(w) ==
    /\ workers[w].pc = "serving"
    /\ ~workers[w].looked_up
    /\ workers' = [workers EXCEPT ![w].looked_up = TRUE]
    /\ UNCHANGED <<cacheFile, downloads>>
    /\ UNCHANGED workerFrame

(***************************************************************************)
(* Specifications                                                          *)
(***************************************************************************)
FullConfig == [api_key |-> "key", stop_ids |-> {"S1", "S2"}]

\* the whole program
Init == \E config \in Configs, available \in BOOLEAN : Boot(config, available)

Next ==
    \/ LoadGtfs
    \/ Restart
    \/ Tick
    \/ FetchStmDepartures(Responses(clock))
    \/ GetDashboard(DashboardAnswers(clock))

Spec == Init /\ [][Next]_vars

\* the schedule cache over restarts and time, with a request now and then
InitCache == Boot(FullConfig, TRUE)

NextCache ==
    \/ LoadGtfs
    \/ Restart
    \/ Tick
    \/ FetchStmDepartures(ProbeResponses(clock))

SpecCache == InitCache /\ [][NextCache]_vars

\* the departures of one process: any configuration, the load done (from a
\* complete archive, from one whose trips table broke off, or failed), then
\* requests against every feed
StartupDownloads ==
    { [status |-> "error", archive |-> NoArchive],
      [status |-> "ok", archive |-> CompleteArchive],
      [status |-> "ok",
       archive |-> [CompleteArchive EXCEPT !.trips = Some(Bad(TripsRows))]] }

Environments ==
    {<<config, TRUE>> : config \in Configs} \cup {<<FullConfig, FALSE>>}

Started(environments, archives) ==
    \E env \in environments, download \in archives :
        \E r \in {load_gtfs_trip_headsigns(None, StartDay * DaySeconds, EmptyDict,
                                             EmptyDict, download, "ok")} :
            /\ clock = StartDay * DaySeconds
            /\ cacheFile = r.file
            /\ GTFS_TRIP_HEADSIGNS = r.headsigns
            /\ GTFS_TRIP_TERMINUS = r.terminus
            /\ CONFIG = env[1]
            /\ GTFS_AVAILABLE = env[2]
            /\ phase = "serving"
            /\ call = None
            /\ departures = <<>>
            /\ lastLoad = [outcome |-> r.outcome, found |-> "absent",
                           archive |-> IF download.status = "ok"
                                       THEN Some(download.archive) ELSE None]
            /\ downloads = 1
            /\ generation = IF download.status = "ok" THEN Some(clock) ELSE None
            /\ saved = IF r.saved
                       THEN Some([headsigns |-> r.headsigns, terminus |-> r.terminus])
                       ELSE None
            /\ starts = 1
            /\ ticks = 0
            /\ dashboard = None
            /\ workers = NoWorkers

InitDepartures == Started(Environments, StartupDownloads)

NextDepartures == FetchStmDepartures(Responses(clock))

SpecDepartures == InitDepartures /\ [][NextDepartures]_vars

\* the dashboard of one process that has the key, the bindings and the
\* complete archive: requests against every combination of the five
\* sources' answers
InitDashboard ==
    Started({<<FullConfig, TRUE>>}, {[status |-> "ok", archive |-> CompleteArchive]})

NextDashboard == GetDashboard(DashboardAnswers(clock))

SpecDashboard == InitDashboard /\ [][NextDashboard]_vars

\* worker processes started together, with no cache file or with one whose
\* stamp is past the freshness window
StaleDocument ==
    DumpCache(StartDay * DaySeconds - TtlSeconds,
              ParseTrips(EmptyDict, SubSeq(TripsRows, 1, 1)), EmptyDict)

InitWorkers ==
    /\ clock = StartDay * DaySeconds
    /\ cacheFile \in {None, Some(StaleDocument)}
    /\ GTFS_TRIP_HEADSIGNS = EmptyDict
    /\ GTFS_TRIP_TERMINUS = EmptyDict
    /\ CONFIG = FullConfig
    /\ GTFS_AVAILABLE = TRUE
    /\ phase = "boot"
    /\ call = None
    /\ departures = <<>>
    /\ lastLoad = NotLoaded
    /\ downloads = 0
    /\ generation = None
    /\ saved = None
    /\ starts = 1
    /\ ticks = 0
    /\ dashboard = None
    /\ workers = [w \in 1..NumWorkers |-> WorkerStart]

NextWorkers ==
    \E w \in 1..NumWorkers :
        \/ WorkerCheckCache(w)
        \/ WorkerBuild(w)
        \/ WorkerOpen(w)
        \/ WorkerWrite(w)
        \/ WorkerLookup(w)

SpecWorkers == InitWorkers /\ [][NextWorkers]_vars

\* the build of the terminus dict: one process, no cache file, the archive
\* with its stop_times table in every order
InitTerminus == Boot(FullConfig, TRUE)

NextTerminus == LoadGtfsFrom(TerminusDownloads, {"ok"})

SpecTerminus == InitTerminus /\ [][NextTerminus]_vars

(***************************************************************************)
(* Properties of the departures                                            *)
(***************************************************************************)
\* the last call got a feed that parsed
Answered ==
    /\ IsSome(call)
    /\ Get(call).response.status = "ok"
    /\ Get(call).response.parses

\* the (trip, update) pairs of the feed the last call got
FeedUpdates == Updates(Get(call).response.entities)

\* seconds from the call's now to the update's event, for an update at a
\* configured stop that has an event time
HasEvent(u) ==
    /\ u.stu.stop_id \in CONFIG.stop_ids
    /\ IsSome(EventTime(u.stu))
    /\ Get(EventTime(u.stu)) # 0

EventOffset(u) == Get(EventTime(u.stu)) - Get(call).now

\* an update whose event falls in the window of whole minutes
Qualifies(u) ==
    /\ HasEvent(u)
    /\ 0 <= EventOffset(u)
    /\ EventOffset(u) < (WindowMinutes + 1) * SecondsPerMinute

\* the cardinal the schedule gives for the trip of an emitted record
RecordCardinal(r) ==
    CardinalOf([route_id |-> Some(r.route_number), trip_id |-> Some(r.trip_id),
                direction_id |-> r.direction_id], GTFS_TRIP_HEADSIGNS)

\* C1: every returned record has arrival_minutes between 0 and 60.
C1_ArrivalMinutesInWindow ==
    \A i \in 1..Len(departures) :
        /\ 0 <= departures[i].arrival_minutes
        /\ departures[i].arrival_minutes <= 60

\* C1 witness: a feed with an event past the window (and one before now) at a
\* configured stop was answered with a non-empty list.
C1_Witness ==
    /\ Answered
    /\ departures # <<>>
    /\ \E i \in 1..Len(FeedUpdates) :
          HasEvent(FeedUpdates[i]) /\ ~Qualifies(FeedUpdates[i])

\* C2: the returned list is sorted non-decreasing by arrival_minutes.
C2_SortedByArrivalMinutes ==
    \A i \in 1..(Len(departures) - 1) :
        departures[i].arrival_minutes <= departures[i + 1].arrival_minutes

\* C2 witness: the feed listed a later event before an earlier one, both
\* returned.
C2_Witness ==
    /\ Answered
    /\ Len(departures) >= 2
    /\ departures[1].arrival_minutes < departures[Len(departures)].arrival_minutes
    /\ \E i, j \in 1..Len(FeedUpdates) :
          /\ i < j
          /\ Qualifies(FeedUpdates[i])
          /\ Qualifies(FeedUpdates[j])
          /\ EventOffset(FeedUpdates[i]) > EventOffset(FeedUpdates[j])

C4_NoRoute57South ==
    \A i \in 1..Len(departures) :
        LET r == departures[i]
        IN  r.route_number = "57" =>
              /\ RecordCardinal(r) # Some(<<"S","o","u","t","h">>)
              /\ IsSome(r.direction) =>
                    /\ ~Contains(Lower(Get(r.direction)), <<"s","o","u","t","h">>)
                    /\ ~Contains(Get(r.direction), <<"C","o","s","t","c","o">>)

\* C4 witness: the feed had a qualifying route 57 update on a southbound
\* trip, and the call returned other records.
C4_Witness ==
    /\ Answered
    /\ departures # <<>>
    /\ \E i \in 1..Len(FeedUpdates) :
          /\ Qualifies(FeedUpdates[i])
          /\ FeedUpdates[i].trip.route_id = Some("57")
          /\ CardinalOf(FeedUpdates[i].trip, GTFS_TRIP_HEADSIGNS)
                = Some(<<"S","o","u","t","h">>)

\* C5: for a record whose trip has a cardinal, the direction is the override
\* table's entry for (route, cardinal) when there is one and the cardinal
\* itself otherwise, never the flag's text; headsign "Nord" gives "North" on
\* a route without an override and the override on route 71.
C5_OverrideThenCardinal ==
    \A i \in 1..Len(departures) :
        LET r == departures[i]
            c == RecordCardinal(r)
            entries == {e \in CUSTOM_TERMINUS_MAP :
                           e[1] = r.route_number /\ Some(e[2]) = c}
        IN  /\ IsSome(c) =>
                 /\ entries # {} => \A e \in entries : r.direction = Some(e[3])
                 /\ entries = {} => r.direction = c
                 /\ r.direction # Some(<<"O","u","t","b","o","u","n","d">>)
                 /\ r.direction # Some(<<"I","n","b","o","u","n","d">>)
            /\ DictGet(GTFS_TRIP_HEADSIGNS, r.trip_id) = Some(<<"N","o","r","d">>) =>
                 /\ r.route_number = "24" =>
                       r.direction = Some(<<"N","o","r","t","h">>)
                 /\ r.route_number = "71" =>
                       r.direction
                         = Some(<<"G","u","y"," ","C","o","n","c","o","r","d","i","a">>)

\* C5 witness: one call returned a record that carries an override and a
\* record that carries its bare cardinal.
C5_Witness ==
    \E i, j \in 1..Len(departures) :
        /\ departures[i].route_number = "71"
        /\ departures[i].direction
             = Some(<<"G","u","y"," ","C","o","n","c","o","r","d","i","a">>)
        /\ departures[j].route_number = "24"
        /\ departures[j].direction = Some(<<"W","e","s","t">>)

\* C6: for a record whose trip has no cardinal, the direction is "Outbound"
\* for flag 0, "Inbound" for flag 1 and absent without a flag; no record
\* carries "Unknown".
C6_FlagFallback ==
    \A i \in 1..Len(departures) :
        LET r == departures[i]
        IN  /\ RecordCardinal(r) = None =>
                 /\ r.direction_id = Some(0) =>
                       r.direction = Some(<<"O","u","t","b","o","u","n","d">>)
                 /\ r.direction_id = Some(1) =>
                       r.direction = Some(<<"I","n","b","o","u","n","d">>)
                 /\ r.direction_id = None => r.direction = None
            /\ r.direction # Some(<<"U","n","k","n","o","w","n">>)

\* C6 witness: one call returned a record without a direction and a record
\* with the flag's text.
C6_Witness ==
    \E i, j \in 1..Len(departures) :
        /\ departures[i].direction = None
        /\ departures[i].direction_id = None
        /\ departures[j].direction = Some(<<"I","n","b","o","u","n","d">>)

\* C16: with the API key missing from the configuration or empty, a call of
\* fetch_stm_departures returns the empty list, sends no request to the
\* real-time feed and does not raise.
C16_NoKeyNoRequest ==
    (IsSome(call) /\ ("api_key" \notin DOMAIN CONFIG \/ CONFIG.api_key = "")) =>
        /\ departures = <<>>
        /\ Get(call).requests = 0
        /\ ~Get(call).raised

\* C16 witness: a call has returned in a process that has the protobuf
\* bindings and stops configured but no API key.
C16_Witness ==
    /\ IsSome(call)
    /\ "api_key" \notin DOMAIN CONFIG
    /\ CONFIG.stop_ids # {}
    /\ GTFS_AVAILABLE
    /\ Get(call).requests = 0
    /\ departures = <<>>

\* the answer to the last call's GET was a failure: no answer, an HTTP
\* error status, or a body that does not decode
FeedFailed ==
    /\ Get(call).requests >= 1
    /\ Get(call).response.status # "ok" \/ ~Get(call).response.parses

\* C19: a call of fetch_stm_departures sends at most one request to the
\* real-time feed; when the request fails (transport failure, HTTP error
\* status, undecodable body) it is not sent again and the call returns the
\* empty list.
C19_AtMostOneRequest ==
    IsSome(call) =>
        /\ Get(call).requests <= 1
        /\ FeedFailed => (Get(call).requests = 1 /\ departures = <<>>)

\* C19 witness: a call whose one request was answered with an HTTP 500 has
\* returned the empty list.
C19_Witness ==
    /\ IsSome(call)
    /\ Get(call).requests = 1
    /\ Get(call).response.status = "http_500"
    /\ departures = <<>>

(***************************************************************************)
(* Properties of the schedule cache                                        *)
(***************************************************************************)
\* a step that is the load of a process
LoadStep == phase = "boot" /\ phase' = "serving"

\* a step that is a request for departures
FetchStep == call = None /\ call' # None

\* the file holds a document with a stamp the load can read
Readable == IsSome(cacheFile) /\ Get(cacheFile).mapping

\* seconds from the file's stamp to now
StampAge == clock - CacheTime(Get(cacheFile))

\* C7: a load that finds a readable cache file downloads the archive only
\* when the file's stamp is at least 7 days old; a load made less than 7
\* days after a build that saved the file downloads nothing.
C7_RebuildOnlyWhenStale ==
    [][LoadStep =>
          /\ (Readable /\ downloads' # downloads) => StampAge >= 7 * 86400
          /\ (IsSome(saved) /\ StampAge < 7 * 86400) => downloads' = downloads]_vars

\* C7 witness: a second process, started within the window of the first
\* one's build, has loaded the cache; the archive was downloaded once.
C7_Witness ==
    /\ phase = "serving"
    /\ starts = 2
    /\ ticks >= 1
    /\ lastLoad.outcome = "cache"
    /\ lastLoad.found = "fresh"
    /\ IsSome(saved)
    /\ downloads = 1

\* C8 as stated: no lookup uses a generation older than the freshness
\* window.
C8_LookupWithinWindow ==
    (IsSome(call) /\ departures # <<>> /\ IsSome(generation)) =>
        Get(call).now - Get(generation) < 7 * 86400

\* C8 as amended: the freshness check is made by the load of a process and
\* by nothing else.  A load that finds a stamp younger than 7 days serves
\* the file without a download; a load that finds a stamp of 7 days or more
\* sends the download and does not serve the file; so right after a load the
\* data in the dicts is younger than 7 days.  A request leaves the dicts,
\* the file and the count of downloads as they are.
C8_FreshnessCheckedAtLoad ==
    [][/\ LoadStep =>
             /\ (Readable /\ StampAge < 7 * 86400) =>
                   /\ lastLoad'.outcome = "cache"
                   /\ downloads' = downloads
                   /\ generation' = Some(CacheTime(Get(cacheFile)))
             /\ (Readable /\ StampAge >= 7 * 86400) =>
                   /\ lastLoad'.outcome # "cache"
                   /\ downloads' = downloads + 1
             /\ IsSome(generation') => clock' - Get(generation') < 7 * 86400
       /\ FetchStep => UNCHANGED cacheVars]_vars

\* C8 witness: a load found a stale stamp and rebuilt, and a request then
\* looked trips up.
C8_Witness ==
    /\ lastLoad.outcome = "built"
    /\ lastLoad.found = "stale"
    /\ downloads = 2
    /\ IsSome(call)
    /\ departures # <<>>

\* C9: a load made less than 7 days after a build that saved the cache file
\* leaves in both dicts what they held when the file was saved.
C9_CacheRoundTrip ==
    [][(LoadStep /\ IsSome(saved) /\ StampAge < 7 * 86400) =>
          /\ GTFS_TRIP_HEADSIGNS' = Get(saved).headsigns
          /\ GTFS_TRIP_TERMINUS' = Get(saved).terminus]_vars

\* C9 witness: a process has loaded, from the file an earlier process saved,
\* dicts that are not empty.
C9_Witness ==
    /\ lastLoad.outcome = "cache"
    /\ IsSome(saved)
    /\ GTFS_TRIP_HEADSIGNS # EmptyDict
    /\ GTFS_TRIP_TERMINUS # EmptyDict
    /\ GTFS_TRIP_HEADSIGNS = Get(saved).headsigns
    /\ GTFS_TRIP_TERMINUS = Get(saved).terminus

\* C10: after a build that failed, both dicts are empty.
C10_FailedBuildLeavesEmpty ==
    lastLoad.outcome = "failed" =>
        /\ GTFS_TRIP_HEADSIGNS = EmptyDict
        /\ GTFS_TRIP_TERMINUS = EmptyDict

(***************************************************************************)
(* Properties of the terminus scan                                         *)
(***************************************************************************)
\* the name stops.txt gives a stop, the stop_id when it gives none
StopDisplayName(stop_id) ==
    IF \E i \in 1..Len(StopsRows) :
          StopsRows[i].stop_id = stop_id /\ StopsRows[i].stop_name # <<>>
    THEN StopsRows[CHOOSE i \in 1..Len(StopsRows) : StopsRows[i].stop_id = stop_id].stop_name
    ELSE stop_id

\* the rows of the stop_times table the last load read
LoadedStopTimes == Get(Get(lastLoad.archive).stop_times).rows

\* the index of the last row of a trip in the table
LastRowOf(rows, trip) ==
    CHOOSE i \in 1..Len(rows) :
        /\ rows[i].trip_id = trip
        /\ \A j \in (i + 1)..Len(rows) : rows[j].trip_id # trip

\* C11: after a build, whatever the order of the rows of stop_times.txt
\* (the rows of a trip contiguous or interleaved with those of other
\* trips), the terminus of every trip whose last row in the table names a
\* stop is the display name of that stop (the stop_id when stops.txt gives
\* the stop no name).
C11_TerminusIsLastRow ==
    (lastLoad.outcome = "built" /\ IsSome(lastLoad.archive)) =>
        \A i \in 1..Len(LoadedStopTimes) :
            LET trip == LoadedStopTimes[i].trip_id
                last == LoadedStopTimes[LastRowOf(LoadedStopTimes, trip)]
            IN  last.stop_id # <<>> =>
                    /\ trip \in DOMAIN GTFS_TRIP_TERMINUS
                    /\ GTFS_TRIP_TERMINUS[trip] = StopDisplayName(last.stop_id)

\* C11 witness: a table in which the rows of one trip are interleaved with
\* another trip's has been scanned; the trip's first run ended at another
\* stop than its last row, and its terminus is the name of the last row's
\* stop.
C11_Witness ==
    /\ lastLoad.outcome = "built"
    /\ IsSome(lastLoad.archive)
    /\ \E i, j, k \in 1..Len(LoadedStopTimes) :
          /\ i < j /\ j < k
          /\ k = LastRowOf(LoadedStopTimes, LoadedStopTimes[i].trip_id)
          /\ LoadedStopTimes[j].trip_id # LoadedStopTimes[i].trip_id
          /\ LoadedStopTimes[i].stop_id = <<"5","3">>
          /\ LoadedStopTimes[k].stop_id = <<"5","1">>
          /\ GTFS_TRIP_TERMINUS[LoadedStopTimes[i].trip_id] = <<"A">>

(***************************************************************************)
(* Properties of the dashboard                                             *)
(***************************************************************************)
\* the sources whose fetch failed in the last dashboard request: the GET
\* failed or the fetch could not read the answer
TransitFailed(answers) == answers.transit.status # "ok" \/ ~answers.transit.parses

BixiFailed(answers) ==
    AnswerRaises(answers.bixi_status) \/ AnswerRaises(answers.bixi_info)

WeatherFailed(answers) == AnswerRaises(answers.weather)

AqiFailed(answers) ==
    \/ AnswerRaises(answers.aqi)
    \/ /\ "current" \in DOMAIN answers.aqi.body
       /\ "european_aqi" \in DOMAIN answers.aqi.body.current
       /\ answers.aqi.body.current.european_aqi.type # "number"

SunFailed(answers) ==
    \/ AnswerRaises(answers.sun)
    \/ /\ "daily" \in DOMAIN answers.sun.body
       /\ \E t \in {answers.sun.body.daily.sunrise, answers.sun.body.daily.sunset} :
             t # <<>> /\ ~t[1].iso

\* the AQI object of a payload, wherever it is: beside the weather or in it
PayloadAqi(payload) ==
    IF "aqi" \in DOMAIN payload THEN Some(payload.aqi)
    ELSE IF "aqi" \in DOMAIN payload.weather THEN Some(payload.weather.aqi)
    ELSE None

\* C12: when all five sources fail, the dashboard request answers 200 with
\* departures the empty list, stations the empty list, and an aqi object
\* whose category is 'Unknown'.
C12_TotalOutageNeutralPayload ==
    (/\ IsSome(dashboard)
     /\ TransitFailed(Get(dashboard).answers)
     /\ BixiFailed(Get(dashboard).answers)
     /\ WeatherFailed(Get(dashboard).answers)
     /\ AqiFailed(Get(dashboard).answers)
     /\ SunFailed(Get(dashboard).answers)) =>
        /\ Get(dashboard).status = 200
        /\ Get(Get(dashboard).payload).transit.departures = <<>>
        /\ Get(Get(dashboard).payload).bixi.stations = <<>>
        /\ IsSome(PayloadAqi(Get(Get(dashboard).payload)))
        /\ Get(PayloadAqi(Get(Get(dashboard).payload))).category = "Unknown"

\* what a payload reports for one source
Reported(payload, source) ==
    CASE source = "transit" -> payload.transit.departures
      [] source = "bixi"    -> payload.bixi.stations
      [] source = "weather" ->
            [k \in DOMAIN payload.weather \ {"aqi", "sunrise", "sunset"} |->
                payload.weather[k]]
      [] source = "aqi"     -> PayloadAqi(payload)
      [] source = "sun"     ->
            IF "sunrise" \in DOMAIN payload.weather
            THEN Some(<<payload.weather.sunrise, payload.weather.sunset>>)
            ELSE None

Sources == {"transit", "bixi", "weather", "aqi", "sun"}

\* the same answers with one source out
Outage(answers, source) ==
    CASE source = "transit" ->
            [answers EXCEPT !.transit = [status |-> "timeout", parses |-> FALSE,
                                         entities |-> <<>>]]
      [] source = "bixi"    ->
            [answers EXCEPT !.bixi_status = Unanswered, !.bixi_info = Unanswered]
      [] source = "weather" -> [answers EXCEPT !.weather = Unanswered]
      [] source = "aqi"     -> [answers EXCEPT !.aqi = Unanswered]
      [] source = "sun"     -> [answers EXCEPT !.sun = Unanswered]

\* C13: the outage of one source changes nothing of what the snapshot
\* reports for the other sources: the request made with the same answers
\* but source X out reports, for every other source, what this request
\* reports.
C13_OutageLeavesSiblingsAlone ==
    IsSome(dashboard) =>
        \A x \in Sources :
            LET other == get_dashboard(CONFIG, GTFS_AVAILABLE,
                                       Outage(Get(dashboard).answers, x),
                                       clock, GTFS_TRIP_HEADSIGNS)
            IN  /\ IsSome(other.payload)
                /\ IsSome(Get(dashboard).payload)
                /\ \A y \in Sources \ {x} :
                      Reported(Get(other.payload), y)
                          = Reported(Get(Get(dashboard).payload), y)

\* C14: when the weather fetch and the AQI fetch both succeed, the weather
\* object of the snapshot has the key 'aqi', holding what fetch_aqi
\* returned for the upstream's value, and the payload has no 'aqi' beside
\* 'weather'.
C14_AqiNestedInWeather ==
    (/\ IsSome(dashboard)
     /\ ~WeatherFailed(Get(dashboard).answers)
     /\ ~AqiFailed(Get(dashboard).answers)) =>
        /\ IsSome(Get(dashboard).payload)
        /\ "aqi" \notin DOMAIN Get(Get(dashboard).payload)
        /\ "aqi" \in DOMAIN Get(Get(dashboard).payload).weather
        /\ Get(Get(dashboard).payload).weather.aqi = Get(dashboard).fetched.aqi.value
        /\ Get(dashboard).fetched.aqi.value.category # "Unknown"

\* C14 witness: a snapshot with the weather of the answer and, inside it,
\* the AQI of the answer.
C14_Witness ==
    /\ IsSome(dashboard)
    /\ IsSome(Get(dashboard).payload)
    /\ ~WeatherFailed(Get(dashboard).answers)
    /\ Get(Get(dashboard).payload).weather.temperature = 21
    /\ "aqi" \in DOMAIN Get(Get(dashboard).payload).weather
    /\ Get(Get(dashboard).payload).weather.aqi.value = 151
    /\ Get(Get(dashboard).payload).weather.aqi.category = "Unhealthy"

\* C15: no fetch function raises into get_dashboard, whatever its upstream
\* answers, and a fetch whose upstream call or own parsing failed returns
\* its neutral value: the empty list (departures, stations), the empty
\* dict (weather), the 'Unknown' AQI, the 'N/A' times.
C15_FetchesAbsorbFailures ==
    IsSome(dashboard) =>
        /\ Get(dashboard).status = 200
        /\ \A k \in DOMAIN Get(dashboard).fetched : ~Get(dashboard).fetched[k].raised
        /\ TransitFailed(Get(dashboard).answers) =>
              Get(dashboard).fetched.departures.value = <<>>
        /\ BixiFailed(Get(dashboard).answers) =>
              Get(dashboard).fetched.bixi_stations.value = <<>>
        /\ WeatherFailed(Get(dashboard).answers) =>
              DOMAIN Get(dashboard).fetched.weather.value = {}
        /\ AqiFailed(Get(dashboard).answers) =>
              Get(dashboard).fetched.aqi.value
                  = [value |-> 0, category |-> "Unknown", severity |-> "info"]
        /\ SunFailed(Get(dashboard).answers) =>
              Get(dashboard).fetched.sunrise_sunset.value
                  = [sunrise |-> <<"N/A">>, sunset |-> <<"N/A">>]

\* C15 witness: a dashboard request has been answered although the
\* transit feed timed out, the station information did not come, the
\* weather body was not an object, european_aqi was null and the sunrise
\* was not an ISO time.
C15_Witness ==
    /\ IsSome(dashboard)
    /\ Get(dashboard).status = 200
    /\ Get(dashboard).answers.transit.status = "timeout"
    /\ ~AnswerRaises(Get(dashboard).answers.bixi_status)
    /\ AnswerRaises(Get(dashboard).answers.bixi_info)
    /\ Get(dashboard).answers.weather.json
    /\ ~Get(dashboard).answers.weather.object
    /\ ~AnswerRaises(Get(dashboard).answers.aqi)
    /\ AqiFailed(Get(dashboard).answers)
    /\ ~AnswerRaises(Get(dashboard).answers.sun)
    /\ SunFailed(Get(dashboard).answers)

\* the european_aqi of the last dashboard request's answer, when it is a
\* number
UpstreamAqi ==
    IF /\ IsSome(dashboard)
       /\ ~AnswerRaises(Get(dashboard).answers.aqi)
       /\ "current" \in DOMAIN Get(dashboard).answers.aqi.body
       /\ Get(dashboard).answers.aqi.body.current.european_aqi.type = "number"
    THEN Some(Get(dashboard).answers.aqi.body.current.european_aqi.n)
    ELSE None

\* C20: fetch_aqi gives an AQI value v one tier, the upper bounds
\* inclusive: v <= 50 Good/info, 50 < v <= 100 Moderate/info,
\* 100 < v <= 150 Unhealthy for Sensitive Groups/warning, 150 < v <= 200
\* Unhealthy/warning, 200 < v <= 300 Very Unhealthy/critical, v > 300
\* Hazardous/critical.
C20_AqiTiers ==
    IsSome(UpstreamAqi) =>
        LET v   == Get(UpstreamAqi)
            aqi == Get(dashboard).fetched.aqi.value
            is(category, severity) ==
                aqi.category = category /\ aqi.severity = severity
        IN  /\ (v <= 50) => is("Good", "info")
            /\ (50 < v /\ v <= 100) => is("Moderate", "info")
            /\ (100 < v /\ v <= 150) =>
                  is("Unhealthy for Sensitive Groups", "warning")
            /\ (150 < v /\ v <= 200) => is("Unhealthy", "warning")
            /\ (200 < v /\ v <= 300) => is("Very Unhealthy", "critical")
            /\ (v > 300) => is("Hazardous", "critical")

\* C20 witness: an AQI on the upper bound of a tier has been put in that
\* tier.
C20_Witness ==
    /\ UpstreamAqi = Some(300)
    /\ Get(dashboard).fetched.aqi.value.category = "Very Unhealthy"
    /\ Get(dashboard).fetched.aqi.value.severity = "critical"

(***************************************************************************)
(* Properties of the schedule cache under several worker processes         *)
(***************************************************************************)
\* the workers that are between finding no fresh cache and the end of
\* their write
Rebuilders == {w \in DOMAIN workers : workers[w].pc \in Rebuilding}

\* C17: of the loaders that find the cache missing or stale at the same
\* time, at most one downloads the archive and writes the file: no two
\* loaders are rebuilding at once.
C17_SingleRebuilder == Cardinality(Rebuilders) <= 1

\* the dicts a complete build of the archive gives
CompleteHeadsigns == ParseTrips(EmptyDict, TripsRows)

CompleteTerminus ==
    ParseStopTimes(EmptyDict, ParseStops(EmptyDict, StopsRows), Good(StopTimesRows))

\* C18: a reader sees a generation that was built to its end: the dicts
\* that a worker has taken from the cache file, and the dicts in which a
\* worker has looked a trip up, are both empty (nothing was built) or hold
\* the whole trips table and the whole stop-sequence table.
C18_ReadersSeeCompleteGeneration ==
    \A w \in DOMAIN workers :
        (workers[w].outcome = "cache" \/ workers[w].looked_up) =>
            \/ /\ workers[w].headsigns = EmptyDict
               /\ workers[w].terminus = EmptyDict
            \/ /\ workers[w].headsigns = CompleteHeadsigns
               /\ workers[w].terminus = CompleteTerminus


(***************************************************************************)
(* Properties of the event time and of the minutes                         *)
(***************************************************************************)
\* the event time of an emitted record, read back from its scheduled_time
ScheduledAt(r) == FromIsoFormat(r.scheduled_time)

\* floor(x / 60): the quotient rounded towards minus infinity
FloorMinutes(delta) == delta \div SecondsPerMinute

\* C21: the arrival_minutes of every returned record is the floor of the
\* seconds from now to its event over 60, so no returned record has an
\* event before now (an event 1 to 59 seconds back gives -1, outside the
\* window).
C21_MinutesAreFloored ==
    IsSome(call) =>
        \A i \in 1..Len(departures) :
            /\ departures[i].arrival_minutes
                 = FloorMinutes(ScheduledAt(departures[i]) - Get(call).now)
            /\ ScheduledAt(departures[i]) >= Get(call).now

\* the last call sent its request and got a feed that parsed
Fetched == Answered /\ Get(call).requests = 1

\* a time of a stop-time event that is there: the field is set and its time
\* is filled in
TimePresent(event) == IsSome(event) /\ Get(event) # 0

\* the arrival time if present, otherwise the departure time if present
ExpectedEvent(stu) ==
    IF TimePresent(stu.arrival) THEN stu.arrival
    ELSE IF TimePresent(stu.departure) THEN stu.departure
    ELSE None

\* the headsign of the update's trip cannot be normalized
HeadsignRaises(u) ==
    LET t == Translated(u.trip, GTFS_TRIP_HEADSIGNS)
    IN  IsSome(t) /\ Get(t).raised

\* the update's trip is one the route 57 filter drops
Suppressed(u) ==
    LET cardinal == CardinalOf(u.trip, GTFS_TRIP_HEADSIGNS)
    IN  IsRoute57South(RouteId(u.trip), cardinal,
                       ResolveDirection(RouteId(u.trip), cardinal, u.trip.direction_id))

\* a returned record made from the update's trip at the given event time
ReturnedAt(u, time) ==
    \E j \in 1..Len(departures) :
        /\ departures[j].trip_id = TripId(u.trip)
        /\ departures[j].route_number = RouteId(u.trip)
        /\ ScheduledAt(departures[j]) = time

\* C22: in a feed short enough for the cap not to matter and with no
\* headsign that fails, every update at a configured stop that has an
\* arrival time or, failing that, a departure time within the window, on a
\* trip that is not suppressed, is returned with that time: an update is
\* skipped for want of a time only when it has neither.
C22_ArrivalElseDeparture ==
    (/\ Fetched
     /\ Len(FeedUpdates) <= MaxDepartures
     /\ \A i \in 1..Len(FeedUpdates) : ~HeadsignRaises(FeedUpdates[i]))
    => \A i \in 1..Len(FeedUpdates) :
          LET u     == FeedUpdates[i]
              event == ExpectedEvent(u.stu)
              delta == Get(event) - Get(call).now
          IN  (/\ u.stu.stop_id \in CONFIG.stop_ids
               /\ IsSome(event)
               /\ 0 <= delta
               /\ delta < (WindowMinutes + 1) * SecondsPerMinute
               /\ ~Suppressed(u))
              => ReturnedAt(u, Get(event))

\* the minutes the loop computes for an update that has an event
UpdateMinutes(u) == MinutesUntil(EventOffset(u))

\* an update the loop takes for a record: at a configured stop, its minutes
\* in the window, its trip not dropped by the route 57 filter
Selected(u) ==
    /\ HasEvent(u)
    /\ InWindow(UpdateMinutes(u))
    /\ ~Suppressed(u)

SelectedUpdates == {i \in 1..Len(FeedUpdates) : Selected(FeedUpdates[i])}

\* C23: the list a call returns is the first 20, in ascending
\* arrival_minutes, of the records of all the in-window updates at
\* configured stops that are not suppressed: it has 20 records or all of
\* them, each is such an update's record, suppressed updates take no slot,
\* and an update left out is no earlier than any record returned.
C23_FirstTwentyOfSelected ==
    Fetched =>
        /\ Len(departures)
             = (IF Cardinality(SelectedUpdates) < MaxDepartures
                THEN Cardinality(SelectedUpdates) ELSE MaxDepartures)
        /\ \A j \in 1..(Len(departures) - 1) :
              departures[j].arrival_minutes <= departures[j + 1].arrival_minutes
        /\ \A j \in 1..Len(departures) :
              \E i \in SelectedUpdates :
                  /\ departures[j].trip_id = TripId(FeedUpdates[i].trip)
                  /\ departures[j].route_number = RouteId(FeedUpdates[i].trip)
                  /\ departures[j].arrival_minutes = UpdateMinutes(FeedUpdates[i])
        /\ \A i \in SelectedUpdates :
              \/ ReturnedAt(FeedUpdates[i], Get(EventTime(FeedUpdates[i].stu)))
              \/ \A j \in 1..Len(departures) :
                    departures[j].arrival_minutes <= UpdateMinutes(FeedUpdates[i])

(***************************************************************************)
(* Properties of the normalizer and of the cardinal                        *)
(***************************************************************************)
\* the normalized text of the headsign the schedule has for a returned
\* record's trip; the record exists, so the normalizer returned
RecordText(r) == translate_direction(GTFS_TRIP_HEADSIGNS[r.trip_id]).value

HasHeadsign(r) ==
    /\ r.trip_id \in DOMAIN GTFS_TRIP_HEADSIGNS
    /\ GTFS_TRIP_HEADSIGNS[r.trip_id] # <<>>

CardinalWords == {Cardinals[i] : i \in 1..Len(Cardinals)}

\* the direction a record of this route and flag shows for a cardinal
ShownFor(r, cardinal) == ResolveDirection(r.route_number, cardinal, r.direction_id)

\* C24 (as the code has it): a cardinal is extracted when the normalized
\* text equals one of North, South, East, West or starts with one of them
\* followed by a space, and the record then shows that cardinal (or its
\* override); for any other text, a text that merely begins with the
\* letters of a cardinal included, none is extracted and the record shows
\* the flag's fallback.
C24_CardinalNeedsWordBoundary ==
    \A j \in 1..Len(departures) :
        LET r == departures[j]
        IN  HasHeadsign(r) =>
              /\ \A w \in CardinalWords :
                    (RecordText(r) = w \/ StartsWith(RecordText(r), w \o <<" ">>))
                    => r.direction = ShownFor(r, Some(w))
              /\ (\A w \in CardinalWords :
                      /\ RecordText(r) # w
                      /\ ~StartsWith(RecordText(r), w \o <<" ">>))
                 => r.direction = ShownFor(r, None)

\* C24 witness: a call returned a record whose normalized text begins with
\* the letters of a cardinal without being that word, shown with the flag's
\* fallback.
C24_Witness ==
    \E j \in 1..Len(departures) :
        /\ HasHeadsign(departures[j])
        /\ RecordText(departures[j]) = <<"W","e","s","t","m","o","u","n","t">>
        /\ departures[j].direction = Some(<<"O","u","t","b","o","u","n","d">>)

\* C24 (as stated): a cardinal is extracted whenever the normalized text
\* equals or starts with one of North, South, East, West.
C24_CardinalOnAnyPrefix ==
    \A j \in 1..Len(departures) :
        LET r == departures[j]
        IN  HasHeadsign(r) =>
              \A w \in CardinalWords :
                  StartsWith(RecordText(r), w) => r.direction = ShownFor(r, Some(w))

\* the token of the normalizer's first rule
DestinationToken == <<"d","e","s","t","i","n","a","t","i","o","n">>

\* the headsign holds the token, letter case ignored (the test of line 215)
HoldsDestination(headsign) == Contains(Lower(headsign), DestinationToken)

\* the text that follows the first occurrence of the token, in any case
AfterDestination(headsign) ==
    SubSeq(headsign, Find(Lower(headsign), DestinationToken) + Len(DestinationToken),
           Len(headsign))

\* C25: for every returned record whose trip's headsign holds the token
\* 'destination' in any letter case, the normalized text is the text that
\* follows the token (blanks around it aside), whatever the 'Station' rule
\* and the translation table would give.
C25_DestinationRuleAnyCase ==
    \A j \in 1..Len(departures) :
        LET r == departures[j]
        IN  (HasHeadsign(r) /\ HoldsDestination(GTFS_TRIP_HEADSIGNS[r.trip_id]))
            => RecordText(r) = Strip(AfterDestination(GTFS_TRIP_HEADSIGNS[r.trip_id]))

(***************************************************************************)
(* get_dashboard, one upstream call at a time.  The handler runs in one    *)
(* thread: it sends a GET (each with timeout=10) and blocks until the      *)
(* upstream answers, fails or the timeout fires, then goes on to the next  *)
(* call; after the last one it merges and returns.                         *)
(***************************************************************************)
\* The GETs of one dashboard request, in the order the handler sends them
\* (lines 285, 431, 436, 492, 548, 603): "transit", "bixi_status",
\* "bixi_info", "weather", "aqi", "sun".

\* the first GET: fetch_stm_departures returns before its GET without a key
\* or without the protobuf bindings (lines 269-275)
FirstCall(config, gtfs_available) ==
    IF ApiKey(config) = "" \/ ~gtfs_available THEN "bixi_status" ELSE "transit"

\* the failure of a call, as its fetch function sees it
CallFailed(name, answer) ==
    IF name = "transit" THEN answer.status # "ok" \/ ~answer.parses
    ELSE AnswerRaises(answer)

\* what the handler does after the answer to a call: a failure is caught
\* inside the fetch function, which returns, and the handler goes on to the
\* next fetch; the second GET of fetch_bixi_status is in the same try block
\* as the first and is not sent when the first fails
\* (variant: a call that failed is sent again until it succeeds)
CallAfterRetrying(name, answer) ==
    IF CallFailed(name, answer) THEN name
    ELSE IF name = "transit" THEN "bixi_status"
    ELSE IF name = "bixi_status" THEN "bixi_info"
    ELSE IF name = "bixi_info" THEN "weather"
    ELSE IF name = "weather" THEN "aqi"
    ELSE IF name = "aqi" THEN "sun"
    ELSE "return"

CallAfter(name, answer) ==
    IF name = "transit" THEN "bixi_status"
    ELSE IF name = "bixi_status"
    THEN IF CallFailed(name, answer) THEN "weather" ELSE "bixi_info"
    ELSE IF name = "bixi_info" THEN "weather"
    ELSE IF name = "weather" THEN "aqi"
    ELSE IF name = "aqi" THEN "sun"
    ELSE "return"

\* the answers a call can get
UpstreamAnswerSet(name, now) ==
    IF name = "transit" THEN ProbeResponses(now)
    ELSE IF name = "bixi_status" THEN BixiStatusAnswers
    ELSE IF name = "bixi_info" THEN BixiInfoAnswers
    ELSE IF name = "weather" THEN WeatherAnswers
    ELSE IF name = "aqi" THEN AqiAnswers
    ELSE SunAnswers(now)

\* no call made yet
NotAsked ==
    [transit     |-> NoResponse,
     bixi_status |-> Unanswered,
     bixi_info   |-> Unanswered,
     weather     |-> Unanswered,
     aqi         |-> Unanswered,
     sun         |-> Unanswered]

handlerFrame ==
    <<clock, cacheFile, GTFS_TRIP_HEADSIGNS, GTFS_TRIP_TERMINUS, CONFIG,
      GTFS_AVAILABLE, phase, call, departures, lastLoad, downloads, generation,
      saved, starts, ticks, workers>>

\* a request is being handled
Handling == IsSome(dashboard) /\ Get(dashboard).status = 0

\* GET /api/dashboard arrives (line 686): nothing sent yet
DashboardArrives ==
    /\ phase = "serving"
    /\ dashboard = None
    /\ dashboard' = Some([status  |-> 0,
                          next    |-> FirstCall(CONFIG, GTFS_AVAILABLE),
                          waiting |-> FALSE,
                          sent    |-> {},
                          answers |-> NotAsked,
                          fetched |-> EmptyDict,
                          payload |-> None])
    /\ UNCHANGED handlerFrame

\* requests.get(..., timeout=10): the handler sends its next GET and blocks
DashboardSends ==
    /\ Handling
    /\ ~Get(dashboard).waiting
    /\ Get(dashboard).next # "return"
    /\ dashboard' = Some([Get(dashboard) EXCEPT
                              !.waiting = TRUE,
                              !.sent = @ \cup {Get(dashboard).next}])
    /\ UNCHANGED handlerFrame

\* the upstream answers, fails, or the timeout of the call fires
\* (Unanswered); the fetch function returns and the handler is at its next
\* call
UpstreamAnswers ==
    /\ Handling
    /\ Get(dashboard).waiting
    /\ \E answer \in UpstreamAnswerSet(Get(dashboard).next, clock) :
          dashboard' = Some([Get(dashboard) EXCEPT
                                 !.waiting = FALSE,
                                 !.answers[Get(dashboard).next] = answer,
                                 !.next = CallAfter(Get(dashboard).next, answer)])
    /\ UNCHANGED handlerFrame

\* lines 704-719: the merge, the payload, the answer to the client
DashboardReturns ==
    /\ Handling
    /\ Get(dashboard).next = "return"
    /\ \E r \in {get_dashboard(CONFIG, GTFS_AVAILABLE, Get(dashboard).answers,
                               clock, GTFS_TRIP_HEADSIGNS)} :
          dashboard' = Some([Get(dashboard) EXCEPT
                                 !.status = r.status,
                                 !.fetched = r.fetched,
                                 !.payload = r.payload])
    /\ UNCHANGED handlerFrame

\* the client has its answer; the next request can come
DashboardCollected ==
    /\ IsSome(dashboard)
    /\ Get(dashboard).status # 0
    /\ dashboard' = None
    /\ UNCHANGED handlerFrame

InitHandler == Started(Environments, {[status |-> "ok", archive |-> CompleteArchive]})

NextHandler ==
    \/ DashboardArrives
    \/ DashboardSends
    \/ UpstreamAnswers
    \/ DashboardReturns
    \/ DashboardCollected

\* the handler has made its last call and has not answered yet: the state
\* predicate that ENABLED <<DashboardReturns>>_vars amounts to, the step
\* changing status whenever its guard holds
ReturnPending == Handling /\ Get(dashboard).next = "return"

\* The handler's thread runs while it has something to do, and every call
\* that is waiting ends: with an answer, a failure, or its timeout.  The
\* last conjunct is WF_vars(DashboardReturns) written out with
\* ReturnPending for the ENABLED.
FairHandler ==
    /\ WF_vars(DashboardSends)
    /\ WF_vars(UpstreamAnswers)
    /\ ([]<>(~ReturnPending) \/ []<><<DashboardReturns>>_vars)

SpecHandler == InitHandler /\ [][NextHandler]_vars /\ FairHandler

\* C26: every dashboard request that is being handled is eventually
\* answered with a snapshot (status 200), whatever each upstream call gets
\* (an answer, a failure, its timeout), and by then every source after a
\* failed one has been fetched: bixi, weather, AQI and the sun's times
\* always, the transit feed whenever its fetch sends a request at all.
C26_DashboardEventuallyReturns ==
    /\ Handling ~> (IsSome(dashboard) /\ Get(dashboard).status = 200)
    /\ [](
          (IsSome(dashboard) /\ Get(dashboard).status # 0)
          => /\ Get(dashboard).status = 200
             /\ {"bixi_status", "weather", "aqi", "sun"} \subseteq Get(dashboard).sent
             /\ ("transit" \in Get(dashboard).sent)
                  <=> (ApiKey(CONFIG) # "" /\ GTFS_AVAILABLE))

\* C26 witness: a request was answered after every one of its calls that
\* can time out did, the transit feed's first.
C26_Witness ==
    /\ IsSome(dashboard)
    /\ Get(dashboard).status = 200
    /\ Get(dashboard).sent = {"transit", "bixi_status", "weather", "aqi", "sun"}
    /\ Get(dashboard).answers.transit.status = "timeout"
    /\ Get(dashboard).answers.bixi_status = Unanswered
    /\ Get(dashboard).answers.weather = Unanswered
    /\ Get(dashboard).answers.aqi = Unanswered
    /\ Get(dashboard).answers.sun = Unanswered

(***************************************************************************)
(* The routes, in any number and order.  What a request leaves in the      *)
(* module's dicts is part of each handler's step.                          *)
(***************************************************************************)
\* the dict after dict.get(key, None) (line 337): a read
\* (variant: the entry is taken out of the dict as it is read, dict.pop)
DictAfterPop(dict, key) == [k \in (DOMAIN dict) \ {key} |-> dict[k]]

DictAfterGet(dict, key) == dict

\* the stop-time update gets as far as the lookup of line 337
ReachesLookup(u, stop_ids_set, now) ==
    /\ u.stu.stop_id \in stop_ids_set
    /\ IsSome(EventTime(u.stu))
    /\ Get(EventTime(u.stu)) # 0
    /\ InWindow(MinutesUntil(Get(EventTime(u.stu)) - now))

\* GTFS_TRIP_HEADSIGNS after the lookups of one pass over the updates
RECURSIVE DictAfterLookups(_, _, _, _)
DictAfterLookups(dict, updates, stop_ids_set, now) ==
    IF updates = <<>> THEN dict
    ELSE DictAfterLookups(
             IF ReachesLookup(Head(updates), stop_ids_set, now)
             THEN DictAfterGet(dict, TripId(Head(updates).trip))
             ELSE dict,
             Tail(updates), stop_ids_set, now)

\* GTFS_TRIP_HEADSIGNS after one call of fetch_stm_departures: the loop runs
\* only on a feed that was requested and parsed
HeadsignsAfterFetch(headsigns, config, gtfs_available, response, now) ==
    IF ApiKey(config) = "" \/ ~gtfs_available THEN headsigns
    ELSE IF response.status # "ok" \/ ~response.parses THEN headsigns
    ELSE DictAfterLookups(headsigns, Updates(response.entities), config.stop_ids, now)

\* the upstreams' answers to one dashboard request: for each JSON source,
\* no answer or an empty object
RouteAnswers(now) ==
    [transit     : ProbeResponses(now),
     bixi_status : {Unanswered, JsonAnswer(EmptyDict)},
     bixi_info   : BixiInfoAnswers,
     weather     : {Unanswered, JsonAnswer(EmptyDict)},
     aqi         : {Unanswered, JsonAnswer(EmptyDict)},
     sun         : {Unanswered, JsonAnswer(EmptyDict)}]

requestFrame ==
    <<clock, cacheFile, CONFIG, GTFS_AVAILABLE, phase, lastLoad, downloads,
      generation, saved, starts, ticks, workers>>

\* the answer to a request of a route other than /api/transit
Answer(route, status, payload) ==
    Some([route |-> route, status |-> status, payload |-> payload])

\* GET /api/transit (lines 634-640)
get_transit ==
    /\ phase = "serving"
    /\ \E response \in ProbeResponses(clock) :
          \E r \in {fetch_stm_departures(CONFIG.stop_ids, CONFIG, GTFS_AVAILABLE,
                                           response, clock, GTFS_TRIP_HEADSIGNS)} :
              /\ departures' = r.value
              /\ call' = Some([now      |-> clock,
                               requests |-> r.requests,
                               raised   |-> r.raised,
                               response |-> IF r.requests = 0 THEN NoResponse
                                            ELSE response])
              /\ GTFS_TRIP_HEADSIGNS'
                   = HeadsignsAfterFetch(GTFS_TRIP_HEADSIGNS, CONFIG, GTFS_AVAILABLE,
                                         response, clock)
    /\ UNCHANGED <<GTFS_TRIP_TERMINUS, dashboard>>
    /\ UNCHANGED requestFrame

\* GET /api/bixi (lines 643-649)
get_bixi ==
    /\ phase = "serving"
    /\ \E status_answer \in BixiStatusAnswers, info_answer \in BixiInfoAnswers :
          \E r \in {fetch_bixi_status(StationIds, status_answer, info_answer)} :
              dashboard' = Answer("bixi", IF r.raised THEN 500 ELSE 200,
                                  Some([stations |-> r.value]))
    /\ UNCHANGED <<GTFS_TRIP_HEADSIGNS, GTFS_TRIP_TERMINUS, call, departures>>
    /\ UNCHANGED requestFrame

\* GET /api/weather (lines 652-660)
get_weather ==
    /\ phase = "serving"
    /\ \E answer \in WeatherAnswers :
          \E r \in {fetch_weather(answer)} :
              dashboard' = Answer("weather", IF r.raised THEN 500 ELSE 200,
                                  Some(r.value))
    /\ UNCHANGED <<GTFS_TRIP_HEADSIGNS, GTFS_TRIP_TERMINUS, call, departures>>
    /\ UNCHANGED requestFrame

\* GET /api/aqi (lines 663-671)
get_aqi ==
    /\ phase = "serving"
    /\ \E answer \in AqiAnswers :
          \E r \in {fetch_aqi(answer)} :
              dashboard' = Answer("aqi", IF r.raised THEN 500 ELSE 200, Some(r.value))
    /\ UNCHANGED <<GTFS_TRIP_HEADSIGNS, GTFS_TRIP_TERMINUS, call, departures>>
    /\ UNCHANGED requestFrame

\* GET /api/sunrise-sunset (lines 674-682)
get_sunrise_sunset ==
    /\ phase = "serving"
    /\ \E answer \in SunAnswers(clock) :
          \E r \in {calculate_sunrise_sunset(answer)} :
              dashboard' = Answer("sunrise-sunset", IF r.raised THEN 500 ELSE 200,
                                  Some(r.value))
    /\ UNCHANGED <<GTFS_TRIP_HEADSIGNS, GTFS_TRIP_TERMINUS, call, departures>>
    /\ UNCHANGED requestFrame

\* GET /api/dashboard (lines 685-719), its transit fetch included
DashboardRoute ==
    /\ phase = "serving"
    /\ \E answers \in RouteAnswers(clock) :
          \E r \in {get_dashboard(CONFIG, GTFS_AVAILABLE, answers, clock,
                                  GTFS_TRIP_HEADSIGNS)} :
              /\ dashboard' = Answer("dashboard", r.status, r.payload)
              /\ GTFS_TRIP_HEADSIGNS'
                   = HeadsignsAfterFetch(GTFS_TRIP_HEADSIGNS, CONFIG, GTFS_AVAILABLE,
                                         answers.transit, clock)
    /\ UNCHANGED <<GTFS_TRIP_TERMINUS, call, departures>>
    /\ UNCHANGED requestFrame

\* GET /api/health (lines 722-725)
health ==
    /\ phase = "serving"
    /\ dashboard' = Answer("health", 200,
                           Some([status |-> "healthy", timestamp |-> IsoFormat(clock)]))
    /\ UNCHANGED <<GTFS_TRIP_HEADSIGNS, GTFS_TRIP_TERMINUS, call, departures>>
    /\ UNCHANGED requestFrame

\* a request of any route
Request ==
    \/ get_transit
    \/ get_bixi
    \/ get_weather
    \/ get_aqi
    \/ get_sunrise_sunset
    \/ DashboardRoute
    \/ health

InitRequests == Started({<<FullConfig, TRUE>>}, StartupDownloads)

NextRequests ==
    \/ Request
    \/ Restart
    \/ LoadGtfsFrom(StartupDownloads, {"ok"})

SpecRequests == InitRequests /\ [][NextRequests]_vars

\* C27: once the startup load is done, no request of any route, however
\* many and in whatever order, changes the headsign mapping or the terminus
\* mapping (the override table is a literal that no handler assigns to):
\* the mappings change only when a process starts and loads.
C27_RequestsOnlyRead ==
    [][(phase = "serving" /\ phase' = "serving")
       => /\ GTFS_TRIP_HEADSIGNS' = GTFS_TRIP_HEADSIGNS
          /\ GTFS_TRIP_TERMINUS' = GTFS_TRIP_TERMINUS]_vars

\* C27 witness: with the mappings loaded, a transit request has looked a
\* trip up in them and a dashboard request has been answered after it.
C27_Witness ==
    /\ phase = "serving"
    /\ <<"1">> \in DOMAIN GTFS_TRIP_HEADSIGNS
    /\ <<"1">> \in DOMAIN GTFS_TRIP_TERMINUS
    /\ IsSome(call)
    /\ departures # <<>>
    /\ departures[1].trip_id = <<"1">>
    /\ IsSome(dashboard)
    /\ Get(dashboard).route = "dashboard"
    /\ Get(dashboard).status = 200

(***************************************************************************)
(* Properties of the route 57 filter and of a headsign that fails          *)
(***************************************************************************)
\* an update that gets as far as the filter: at a configured stop, with an
\* event whose minutes are in the window
InWindowUpdate(u) == HasEvent(u) /\ InWindow(UpdateMinutes(u))

\* a feed in which nothing but the filter keeps an in-window update out of
\* the list: short of the cap, and no headsign that fails
OnlyFilterDrops ==
    /\ Fetched
    /\ Len(FeedUpdates) <= MaxDepartures
    /\ \A i \in 1..Len(FeedUpdates) : ~HeadsignRaises(FeedUpdates[i])

\* C28: an in-window update at a configured stop is kept out of the list by
\* the filter if and only if its route is '57' and the cardinal extracted
\* for its trip is South; updates of other routes, and route 57 updates
\* with another cardinal or none, are returned (so the tests of the
\* direction text for 'south' and 'Costco' never drop a record on their
\* own).
C28_DroppedIffRoute57South ==
    OnlyFilterDrops =>
        \A i \in 1..Len(FeedUpdates) :
            LET u == FeedUpdates[i]
            IN  InWindowUpdate(u) =>
                  (~ReturnedAt(u, Get(EventTime(u.stu)))
                   <=> /\ RouteId(u.trip) = "57"
                       /\ CardinalOf(u.trip, GTFS_TRIP_HEADSIGNS)
                            = Some(<<"S","o","u","t","h">>))

\* C28 witness: the one update of an entity, on route 57 and a trip whose
\* headsign gives South, was dropped, and the update before it, of another
\* route, is the only record returned.
C28_Witness ==
    /\ OnlyFilterDrops
    /\ Len(FeedUpdates) = 2
    /\ Len(departures) = 1
    /\ departures[1].route_number = "24"
    /\ InWindowUpdate(FeedUpdates[2])
    /\ FeedUpdates[2].trip.route_id = Some("57")
    /\ FeedUpdates[2].trip.trip_id = Some(<<"8">>)

\* C29: in a feed that was fetched and parsed, whenever some in-window
\* update at a configured stop is not suppressed and has a headsign that
\* normalizes (or none), the returned list is not empty: an update whose
\* headsign cannot be normalized does not cost the feed its other
\* departures.
C29_BadHeadsignIsolated ==
    Fetched =>
        ((\E i \in 1..Len(FeedUpdates) :
               /\ InWindowUpdate(FeedUpdates[i])
               /\ ~HeadsignRaises(FeedUpdates[i])
               /\ ~Suppressed(FeedUpdates[i]))
         => departures # <<>>)

(***************************************************************************)
(* Properties of the save                                                  *)
(***************************************************************************)
\* stops.txt, trips.txt and stop_times.txt were all in the archive and all
\* read to their end
AllTablesParsed(archive) ==
    /\ IsSome(archive.stops) /\ ~Get(archive.stops).bad
    /\ IsSome(archive.trips) /\ ~Get(archive.trips).bad
    /\ IsSome(archive.stop_times) /\ ~Get(archive.stop_times).bad

\* C30: a load creates, overwrites or re-stamps the cache file only when it
\* built from an archive in which the stops, trips and stop-sequence tables
\* were all present and parsed without error; a failed or incomplete build
\* leaves the file as it was.
C30_SaveOnlyAfterCompleteBuild ==
    [][(LoadStep /\ cacheFile' # cacheFile)
       => /\ IsSome(lastLoad'.archive)
          /\ AllTablesParsed(Get(lastLoad'.archive))]_vars

=============================================================================
